---- MODULE Spec2Model ----
(***************************************************************************)
(* Delhivery -> Jira reconciliation poller (src/poll.js).                  *)
(*                                                                         *)
(* Text is modelled by TLA+ strings, with the JavaScript string operations *)
(* (toLowerCase, toUpperCase, trim, includes, the nameNorm regex) computed *)
(* character by character.  A missing / null / undefined / empty value of  *)
(* the payload is the empty string, which is falsy as it is in JavaScript. *)
(***************************************************************************)
EXTENDS Integers, Sequences, FiniteSets, TLC

(***************************************************************************)
(* ---------------- String primitives ----------------                     *)
(***************************************************************************)
UpperChars == "ABCDEFGHIJKLMNOPQRSTUVWXYZ"
LowerChars == "abcdefghijklmnopqrstuvwxyz"
DigitChars == "0123456789"

charAt(s, i) == SubSeq(s, i, i)

\* the characters of a text, as a set
charsOf(alphabet) == {charAt(alphabet, i) : i \in 1..Len(alphabet)}

\* index of the one-character string c in alphabet, 0 when it is not there
indexIn(alphabet, c) ==
  IF \E i \in 1..Len(alphabet) : charAt(alphabet, i) = c
  THEN CHOOSE i \in 1..Len(alphabet) : charAt(alphabet, i) = c
  ELSE 0

\* the case mappings as tables over the letters
LowerOf == [c \in charsOf(UpperChars) |-> charAt(LowerChars, indexIn(UpperChars, c))]
UpperOf == [c \in charsOf(LowerChars) |-> charAt(UpperChars, indexIn(LowerChars, c))]

lowerChar(c) == IF c \in DOMAIN LowerOf THEN LowerOf[c] ELSE c

upperChar(c) == IF c \in DOMAIN UpperOf THEN UpperOf[c] ELSE c

RECURSIVE lowerFrom(_, _)
lowerFrom(s, i) ==
  IF i > Len(s) THEN "" ELSE lowerChar(charAt(s, i)) \o lowerFrom(s, i + 1)

RECURSIVE upperFrom(_, _)
upperFrom(s, i) ==
  IF i > Len(s) THEN "" ELSE upperChar(charAt(s, i)) \o upperFrom(s, i + 1)

toLowerCase(s) == lowerFrom(s, 1)
toUpperCase(s) == upperFrom(s, 1)

\* String.prototype.includes
includes(s, sub) ==
  \E i \in 1..(Len(s) - Len(sub) + 1) : SubSeq(s, i, i + Len(sub) - 1) = sub

\* String.prototype.trim (the whitespace of the model's texts is the blank)
RECURSIVE trimLeft(_)
trimLeft(s) ==
  IF Len(s) > 0 /\ charAt(s, 1) = " " THEN trimLeft(SubSeq(s, 2, Len(s))) ELSE s

RECURSIVE trimRight(_)
trimRight(s) ==
  IF Len(s) > 0 /\ charAt(s, Len(s)) = " "
  THEN trimRight(SubSeq(s, 1, Len(s) - 1)) ELSE s

trim(s) == trimRight(trimLeft(s))

\* a || b on strings: the first truthy (non-empty) operand
orElse(a, b) == IF a # "" THEN a ELSE b

\* Array.prototype.includes / membership of a sequence
inSeq(seq, x) == \E i \in 1..Len(seq) : seq[i] = x

(***************************************************************************)
(* ---------------- Mappings ----------------                              *)
(***************************************************************************)
STATUS_MAP ==
  ("Ready for pickup" :> "PICKUP SCHEDULED") @@
  ("In Transit" :> "IN - TRANSIT") @@
  ("Delivered" :> "DELIVERED") @@
  ("Out for delivery" :> "OUT FOR DELIVERY") @@
  ("RTO" :> "RTO IN - TRANSIT") @@
  ("RTO - In Transit" :> "RTO IN - TRANSIT") @@
  ("In Transit For Return" :> "RTO IN - TRANSIT") @@
  ("Delayed" :> "IN - TRANSIT") @@
  ("DELAYED" :> "IN - TRANSIT") @@
  ("On Time" :> "IN - TRANSIT") @@
  ("RTO - Returned" :> "RTO DELIVERED") @@
  ("Cancelled" :> "PICKUP EXCEPTION - DELHIVERY") @@
  ("Shipment delivery cancelled via OTP" :> "PICKUP EXCEPTION - DELHIVERY") @@
  ("NDR" :> "NDR") @@
  ("Manifested" :> "PICKUP SCHEDULED") @@
  ("Pending" :> "PICKUP SCHEDULED") @@
  ("Not Picked" :> "PICKUP EXCEPTION - DELHIVERY") @@
  ("Dispatched" :> "IN - TRANSIT")

JIRA_STATUS_ALIASES_NoReturnNames ==
  ("RTO IN - TRANSIT" :>
     <<"RTO IN - TRANSIT", "RTO IN-TRANSIT", "RTO IN TRANSIT", "RTO In Transit">>) @@
  ("IN - TRANSIT" :> <<"IN - TRANSIT", "IN-TRANSIT", "IN TRANSIT">>) @@
  ("PICKUP SCHEDULED" :> <<"PICKUP SCHEDULED", "Pickup Scheduled">>) @@
  ("DELIVERED" :> <<"DELIVERED", "Delivered">>) @@
  ("RTO DELIVERED" :> <<"RTO DELIVERED", "RETURN DELIVERED", "Return Delivered">>)

JIRA_STATUS_ALIASES ==
  ("RTO IN - TRANSIT" :>
     <<"RTO IN - TRANSIT", "RTO IN-TRANSIT", "RTO IN TRANSIT",
       "Return In-Transit", "Return In Transit", "RTO In Transit">>) @@
  ("IN - TRANSIT" :> <<"IN - TRANSIT", "IN-TRANSIT", "IN TRANSIT">>) @@
  ("PICKUP SCHEDULED" :> <<"PICKUP SCHEDULED", "Pickup Scheduled">>) @@
  ("DELIVERED" :> <<"DELIVERED", "Delivered">>) @@
  ("RTO DELIVERED" :> <<"RTO DELIVERED", "RETURN DELIVERED", "Return Delivered">>)

VERIFIED_CXL_PHRASES ==
  <<"whatsapp verified cancellation",
    "code verified cancellation",
    "consignee refused to accept/order cancelled">>

\* VERIFIED_CXL_RE.test(s): the escaped phrases joined by |, flag i
VERIFIED_CXL_RE(s) ==
  \E i \in 1..Len(VERIFIED_CXL_PHRASES) :
    includes(toLowerCase(s), VERIFIED_CXL_PHRASES[i])

(***************************************************************************)
(* ---------------- Utils ----------------                                 *)
(***************************************************************************)
\* the characters of the class [\s_\-()]
NormStripped == charsOf(" _-()")

RECURSIVE stripFrom(_, _)
stripFrom(s, i) ==
  IF i > Len(s) THEN ""
  ELSE (IF charAt(s, i) \in NormStripped THEN "" ELSE charAt(s, i))
       \o stripFrom(s, i + 1)

nameNorm(s) == stripFrom(toLowerCase(s), 1)

(***************************************************************************)
(* ---------------- Classification helpers ----------------                *)
(***************************************************************************)
lookback == 8

\* scans.slice(-n): the last n elements
sliceLast(scans, n) ==
  IF Len(scans) <= n THEN scans ELSE SubSeq(scans, Len(scans) - n + 1, Len(scans))

\* hasRecentRTScan without the slice: an RT scan anywhere in the history
hasRecentRTScan_AnyScan(tracking) ==
  \E i \in 1..Len(tracking.Scans) : toUpperCase(tracking.Scans[i].ScanDetail.ScanType) = "RT"

hasRecentRTScan(tracking) ==
  LET recent == sliceLast(tracking.Scans, lookback) IN
  \E i \in 1..Len(recent) : toUpperCase(recent[i].ScanDetail.ScanType) = "RT"

hasTerminalRTO_NoReturnedDate(t) ==
  LET s == t.Status
      instr == toLowerCase(s.Instructions)
  IN \/ /\ toUpperCase(orElse(s.StatusType, s.ScanType)) = "DL"
        /\ (includes(toLowerCase(s.Status), "rto") \/ includes(instr, "return accepted"))
     \/ \E i \in 1..Len(t.Scans) :
          LET sd == t.Scans[i].ScanDetail IN
          /\ toUpperCase(sd.ScanType) = "DL"
          /\ \/ includes(toLowerCase(sd.Scan), "rto")
             \/ includes(toLowerCase(sd.Instructions), "return accepted")

hasTerminalRTO(t) ==
  LET s == t.Status
      instr == toLowerCase(s.Instructions)
  IN \/ t.ReturnedDate # ""
     \/ /\ toUpperCase(orElse(s.StatusType, s.ScanType)) = "DL"
        /\ (includes(toLowerCase(s.Status), "rto") \/ includes(instr, "return accepted"))
     \/ \E i \in 1..Len(t.Scans) :
          LET sd == t.Scans[i].ScanDetail IN
          /\ toUpperCase(sd.ScanType) = "DL"
          /\ \/ includes(toLowerCase(sd.Scan), "rto")
             \/ includes(toLowerCase(sd.Instructions), "return accepted")

\* isReturnFlow with RT as the only return type
isReturnFlow_OnlyRT(t) ==
  LET s == t.Status
      statusType == toUpperCase(orElse(s.StatusType, s.ScanType))
      statusTxt == toLowerCase(s.Status)
      instr == toLowerCase(s.Instructions)
  IN \/ statusType = "RT"
     \/ t.ReverseInTransit
     \/ t.RTOStartedDate # ""
     \/ hasRecentRTScan(t)
     \/ includes(statusTxt, "rto")
     \/ includes(instr, "rto")

isReturnFlow(t) ==
  LET s == t.Status
      statusType == toUpperCase(orElse(s.StatusType, s.ScanType))
      statusTxt == toLowerCase(s.Status)
      instr == toLowerCase(s.Instructions)
  IN \/ statusType \in {"RT", "RTO", "RET"}
     \/ t.ReverseInTransit
     \/ t.RTOStartedDate # ""
     \/ hasRecentRTScan(t)
     \/ includes(statusTxt, "rto")
     \/ includes(instr, "rto")

\* rule 2 of interpretStatus: forward terminal
isForwardTerminal(t) ==
  LET s == t.Status
      status == trim(s.Status)
      instructions == toLowerCase(s.Instructions)
  IN \/ t.DeliveryDate # ""
     \/ toUpperCase(orElse(s.StatusType, s.ScanType)) = "DL"
     \/ includes(toLowerCase(status), "delivered")
     \/ includes(toLowerCase(instructions), "delivered")

\* rule 4 of interpretStatus: instruction substrings that mean IN - TRANSIT
ForwardKeywords ==
  <<"consignee will collect",
    "consignee to collect from branch",
    "shipment received at facility",
    "consignee unavailable",
    "agent remark incorrect",
    "unlock",
    "regional holiday",
    "arriving today",
    "office/institute closed",
    "package found in audit",
    "unexpected scan",
    "receipient wants open delivery",
    "agent remark verified",
    "reattempt as per client's instruction",
    "center changed by system",
    "reattempt - as per ndr instructions",
    "package details changed by shipper",
    "service disruption",
    "vehicle departed",
    "shipment picked up",
    "payment mode / amt dispute">>

\* rule 4 without the line of "consignee unavailable"
matchesForwardKeyword_NoUnavailable(instructions) ==
  \E i \in 1..Len(ForwardKeywords) :
    ForwardKeywords[i] # "consignee unavailable" /\ includes(instructions, ForwardKeywords[i])

matchesForwardKeyword(instructions) ==
  \E i \in 1..Len(ForwardKeywords) : includes(instructions, ForwardKeywords[i])

\* rule 5 of interpretStatus: the ordered (substring, status) pairs after the
\* verified-cancellation test
RtoKeywords ==
  <<<<"dispatched for rto", "RTO IN - TRANSIT">>,
    <<"return accepted", "RTO DELIVERED">>,
    <<"not attempted", "NDR">>,
    <<"maximum attempts reached", "IN - TRANSIT">>,
    <<"package missing in audit", "IN - TRANSIT">>,
    <<"package found in audit", "IN - TRANSIT">>,
    <<"delivery rescheduled by customer", "IN - TRANSIT">>,
    <<"delayed due to weather conditions", "IN - TRANSIT">>,
    <<"natural disaster", "IN - TRANSIT">>,
    <<"ntd updated", "RTO IN - TRANSIT">>,
    <<"returned as per security instruction", "RTO IN - TRANSIT">>,
    <<"recipient unavailable.establishment closed", "RTO IN - TRANSIT">>>>

matchesRtoKeyword(instructions) ==
  \/ VERIFIED_CXL_RE(instructions)
  \/ \E i \in 1..Len(RtoKeywords) : includes(instructions, RtoKeywords[i][1])

\* the status of the first matching pair of rule 5
rtoKeywordStatus(instructions) ==
  IF VERIFIED_CXL_RE(instructions) THEN "RTO IN - TRANSIT"
  ELSE LET i == CHOOSE i \in 1..Len(RtoKeywords) :
                  /\ includes(instructions, RtoKeywords[i][1])
                  /\ \A j \in 1..(i - 1) : ~includes(instructions, RtoKeywords[j][1])
       IN RtoKeywords[i][2]

\* the properties that the object literal STATUS_MAP inherits from
\* Object.prototype
ObjectPrototypeKeys ==
  {"constructor", "toString", "toLocaleString", "valueOf", "hasOwnProperty",
   "isPrototypeOf", "propertyIsEnumerable", "__proto__"}

\* the value of an inherited property: a function or an object, which is
\* truthy and is not a text
inheritedMember(key) == "[inherited " \o key \o "]"

\* rule 6: STATUS_MAP[status] || null, null being the empty string; the
\* lookup goes through the own keys, then through the prototype
fallbackMap(status) ==
  IF status \in DOMAIN STATUS_MAP THEN STATUS_MAP[status]
  ELSE IF status \in ObjectPrototypeKeys THEN inheritedMember(status)
  ELSE ""

\* interpretStatus with the keywords of rule 5 tested before those of rule 4
interpretStatus_RtoKeywordsFirst(t) ==
  LET status == trim(t.Status.Status)
      instructions == toLowerCase(t.Status.Instructions)
  IN IF hasTerminalRTO(t) THEN "RTO DELIVERED"
     ELSE IF isForwardTerminal(t) THEN "DELIVERED"
     ELSE IF isReturnFlow(t) THEN "RTO IN - TRANSIT"
     ELSE IF matchesRtoKeyword(instructions) THEN rtoKeywordStatus(instructions)
     ELSE IF matchesForwardKeyword(instructions) THEN "IN - TRANSIT"
     ELSE fallbackMap(status)

\* the revision of interpretStatus that tested the return leg before delivery
interpretStatus_ReturnLegFirst(t) ==
  LET status == trim(t.Status.Status)
      instructions == toLowerCase(t.Status.Instructions)
  IN IF hasTerminalRTO(t) THEN "RTO DELIVERED"
     ELSE IF isReturnFlow(t) THEN "RTO IN - TRANSIT"
     ELSE IF isForwardTerminal(t) THEN "DELIVERED"
     ELSE IF matchesForwardKeyword(instructions) THEN "IN - TRANSIT"
     ELSE IF matchesRtoKeyword(instructions) THEN rtoKeywordStatus(instructions)
     ELSE fallbackMap(status)

interpretStatus(t) ==
  LET status == trim(t.Status.Status)
      instructions == toLowerCase(t.Status.Instructions)
  IN IF hasTerminalRTO(t) THEN "RTO DELIVERED"
     ELSE IF isForwardTerminal(t) THEN "DELIVERED"
     ELSE IF isReturnFlow(t) THEN "RTO IN - TRANSIT"
     ELSE IF matchesForwardKeyword(instructions) THEN "IN - TRANSIT"
     ELSE IF matchesRtoKeyword(instructions) THEN rtoKeywordStatus(instructions)
     ELSE fallbackMap(status)

(***************************************************************************)
(* ---------------- Jira transitions ----------------                      *)
(***************************************************************************)
\* a transition offered by Jira: [id, to |-> [name]]; null is NoTransition
NoTransition == [id |-> "", to |-> [name |-> ""]]

aliasesOf(target) ==
  IF target \in DOMAIN JIRA_STATUS_ALIASES THEN JIRA_STATUS_ALIASES[target]
  ELSE <<target>>

\* transitions.find(pred): the first element satisfying pred, else null
findFirst(transitions, pred(_)) ==
  IF \E i \in 1..Len(transitions) : pred(transitions[i])
  THEN transitions[CHOOSE i \in 1..Len(transitions) :
                     /\ pred(transitions[i])
                     /\ \A j \in 1..(i - 1) : ~pred(transitions[j])]
  ELSE NoTransition

\* findTransitionByName with the fuzzy fallback open to every target
findTransitionByName_FuzzyForAll(transitions, target) ==
  LET aliases == aliasesOf(target)
      targets == [i \in 1..Len(aliases) |-> nameNorm(aliases[i])]
      isExact(t) == inSeq(targets, nameNorm(t.to.name))
      exact == findFirst(transitions, isExact)
      isFuzzy(t) == LET n == nameNorm(t.to.name)
                    IN includes(n, "rto") /\ includes(n, "transit")
      fuzzy == findFirst(transitions, isFuzzy)
  IN IF exact # NoTransition THEN exact
     ELSE IF fuzzy # NoTransition THEN fuzzy
     ELSE NoTransition

findTransitionByName(transitions, target) ==
  LET aliases == aliasesOf(target)
      targets == [i \in 1..Len(aliases) |-> nameNorm(aliases[i])]
      isExact(t) == inSeq(targets, nameNorm(t.to.name))
      exact == findFirst(transitions, isExact)
      targetNorm == nameNorm(target)
      isFuzzy(t) == LET n == nameNorm(t.to.name)
                    IN includes(n, "rto") /\ includes(n, "transit")
      fuzzy == findFirst(transitions, isFuzzy)
  IN IF exact # NoTransition THEN exact
     ELSE IF includes(targetNorm, "rtointransit") /\ fuzzy # NoTransition THEN fuzzy
     ELSE NoTransition

(***************************************************************************)
(* ---------------- Dates ----------------                                 *)
(* Timestamps are texts "YYYY-MM-DDTHH:MM:SS" as the courier sends them.   *)
(***************************************************************************)
Digits == charsOf(DigitChars)

isDigit(c) == c \in Digits

DigitOf == [c \in Digits |-> indexIn(DigitChars, c) - 1]

RECURSIVE digitsValue(_, _, _)
\* the number written by the n characters of s from position i
digitsValue(s, i, n) ==
  IF n = 0 THEN 0
  ELSE 10 * digitsValue(s, i, n - 1) + DigitOf[charAt(s, i + n - 1)]

\* dayjs(s).isValid() on the texts of the model: a date is YYYY-MM-DD...
isValid(s) ==
  /\ Len(s) >= 10
  /\ \A i \in {1, 2, 3, 4, 6, 7, 9, 10} : isDigit(charAt(s, i))
  /\ charAt(s, 5) = "-"
  /\ charAt(s, 8) = "-"

\* dayjs(d).format('YYYY-MM-DD')
fmt(d) == IF isValid(d) THEN SubSeq(d, 1, 10) ELSE "Invalid Date"

\* new Date(s || 0) as a number: minutes on a scale that keeps the order of
\* the instants (the epoch, 0, for a missing value)
dateValue(s) ==
  IF s = "" \/ ~isValid(s) THEN 0
  ELSE LET yy == digitsValue(s, 3, 2)
           mo == digitsValue(s, 6, 2)
           dd == digitsValue(s, 9, 2)
           hh == IF Len(s) >= 16 THEN digitsValue(s, 12, 2) ELSE 0
           mi == IF Len(s) >= 16 THEN digitsValue(s, 15, 2) ELSE 0
       IN (((yy * 12 + mo) * 31 + dd) * 24 + hh) * 60 + mi

\* arr.filter(keep): the subsequence of the elements satisfying keep
RECURSIVE selectByMask(_, _)
selectByMask(seq, mask) ==
  IF seq = <<>> THEN <<>>
  ELSE (IF Head(mask) THEN <<Head(seq)>> ELSE <<>>)
       \o selectByMask(Tail(seq), Tail(mask))

filterSeq(seq, keep(_)) ==
  selectByMask(seq, [i \in 1..Len(seq) |-> keep(seq[i])])

\* arr.sort((a, b) => key(b) - key(a))[0]: the sort is stable, so the first
\* element is the earliest one of the greatest key; NoScan for an empty array
NoScan == [ScanType |-> "", Scan |-> "", Instructions |-> "",
           ScanDateTime |-> "", StatusDateTime |-> "", isNull |-> TRUE]

firstByKey(seq, key(_), descending) ==
  IF seq = <<>> THEN NoScan
  ELSE LET better(a, b) == IF descending THEN a > b ELSE a < b
           i == CHOOSE i \in 1..Len(seq) :
                  /\ \A j \in 1..Len(seq) : ~better(key(seq[j]), key(seq[i]))
                  /\ \A j \in 1..(i - 1) : key(seq[j]) # key(seq[i])
       IN seq[i]

\* scans.map(s => s?.ScanDetail || {})
scanDetails(t) == [i \in 1..Len(t.Scans) |-> t.Scans[i].ScanDetail]

(***************************************************************************)
(* ---------------- Config ----------------                                *)
(* The field ids of the environment and the fixed ones.                    *)
(***************************************************************************)
TRACKING_FIELD == "customfield_10001"
DISPATCH_DATE_FIELD == "customfield_10002"
DELIVERY_DATE_FIELD == "customfield_10003"
RTO_DELIVERED_DATE_FIELD == "customfield_10004"
POST_DELIVERY_ASSIGNEE == "712020:d710d4e8-270f-4d7a-b65a-7303f71783fb"
LATEST_INSTRUCTION_FIELD == "customfield_10288"
OUT_FOR_DELIVERY_DATE_FIELD == "customfield_10321"
PROMISED_DELIVERY_DATE_FIELD == "customfield_10354"
LATEST_PDD_FIELD == "customfield_10357"
RTO_REASON_FIELD == "customfield_10355"
RTO_INITIATED_DATE_FIELD == "customfield_10356"

(***************************************************************************)
(* ---------------- Field updates ----------------                         *)
(* customFields is a function from field ids to the values to write.       *)
(***************************************************************************)
EmptyObject == [k \in {} |-> ""]

\* obj[k] = v
setKey(obj, k, v) == (k :> v) @@ obj

\* Object.keys(obj).length > 0
hasKeys(obj) == DOMAIN obj # {}

\* if (cond) obj[k] = v, as the object of the keys written
setIf(cond, k, v) == IF cond THEN k :> v ELSE EmptyObject

\* buildDateUpdates with the terminal dates written whatever the status is
buildDateUpdates_NoPhaseGate(issue, t, updatedStatus) ==
  LET cur == issue.fields
  IN setIf(t.ReturnedDate # "" /\ cur[RTO_DELIVERED_DATE_FIELD] # fmt(t.ReturnedDate),
           RTO_DELIVERED_DATE_FIELD, fmt(t.ReturnedDate))
     @@ setIf(t.DeliveryDate # "" /\ cur[DELIVERY_DATE_FIELD] # fmt(t.DeliveryDate),
              DELIVERY_DATE_FIELD, fmt(t.DeliveryDate))
     @@ setIf(t.OriginRecieveDate # "" /\ cur[DISPATCH_DATE_FIELD] # fmt(t.OriginRecieveDate),
              DISPATCH_DATE_FIELD, fmt(t.OriginRecieveDate))

buildDateUpdates(issue, t, updatedStatus) ==
  LET cur == issue.fields
  IN setIf(/\ t.ReturnedDate # ""
           /\ updatedStatus = "RTO DELIVERED"
           /\ cur[RTO_DELIVERED_DATE_FIELD] # fmt(t.ReturnedDate),
           RTO_DELIVERED_DATE_FIELD, fmt(t.ReturnedDate))
     @@ setIf(/\ t.DeliveryDate # ""
              /\ updatedStatus = "DELIVERED"
              /\ cur[DELIVERY_DATE_FIELD] # fmt(t.DeliveryDate),
              DELIVERY_DATE_FIELD, fmt(t.DeliveryDate))
     @@ setIf(t.OriginRecieveDate # "" /\ cur[DISPATCH_DATE_FIELD] # fmt(t.OriginRecieveDate),
              DISPATCH_DATE_FIELD, fmt(t.OriginRecieveDate))

\* null of getLatestInstruction
NoInstruction == [instruction |-> "", when |-> "", isNull |-> TRUE]

getLatestInstruction(t) ==
  LET statusIns == trim(t.Status.Instructions)
      statusWhen == orElse(t.Status.StatusDateTime, orElse(t.DeliveryDate, t.DestRecieveDate))
      hasText(sd) == orElse(sd.Instructions, sd.Scan) # ""
      scanWhen(sd) == dateValue(sd.ScanDateTime)
      latest == firstByKey(filterSeq(scanDetails(t), hasText), scanWhen, TRUE)
  IN IF statusIns # ""
     THEN [instruction |-> statusIns, when |-> statusWhen, isNull |-> FALSE]
     ELSE IF latest = NoScan THEN NoInstruction
     ELSE [instruction |-> trim(orElse(latest.Instructions, latest.Scan)),
           when |-> orElse(latest.StatusDateTime, latest.ScanDateTime),
           isNull |-> FALSE]

\* /out for delivery/i.test(s)
isOFDText(s) == includes(toLowerCase(s), "out for delivery")

getOFDWhen(tracking, latestIns) ==
  LET isOFDScan(sd) == isOFDText(orElse(sd.Instructions, sd.Scan))
      scanWhen(sd) == dateValue(sd.ScanDateTime)
      ofdScan == firstByKey(filterSeq(scanDetails(tracking), isOFDScan), scanWhen, TRUE)
  IN IF ~latestIns.isNull /\ isOFDText(latestIns.instruction) /\ latestIns.when # ""
     THEN latestIns.when
     ELSE IF /\ isOFDText(orElse(tracking.Status.Instructions, tracking.Status.Status))
             /\ tracking.Status.StatusDateTime # ""
     THEN tracking.Status.StatusDateTime
     ELSE IF ofdScan # NoScan
     THEN orElse(ofdScan.StatusDateTime, ofdScan.ScanDateTime)
     ELSE tracking.Status.StatusDateTime

findVerifiedCancellation(t) ==
  LET isCxl(sd) == VERIFIED_CXL_RE(sd.Instructions)
      when(sd) == dateValue(orElse(sd.StatusDateTime, sd.ScanDateTime))
  IN firstByKey(filterSeq(scanDetails(t), isCxl), when, FALSE)

\* run: Promised Delivery Date (write-once), with the guard on the stored value dropped
promisedDateUpdate_Overwrite(issue, tracking) ==
  setIf(tracking.PromisedDeliveryDate # "" /\ isValid(tracking.PromisedDeliveryDate),
        PROMISED_DELIVERY_DATE_FIELD, fmt(tracking.PromisedDeliveryDate))

\* run: Promised Delivery Date (write-once, forward); the keys written to
\* customFields, as for the blocks below
promisedDateUpdate(issue, tracking) ==
  setIf(/\ issue.fields[PROMISED_DELIVERY_DATE_FIELD] = ""
        /\ tracking.PromisedDeliveryDate # ""
        /\ isValid(tracking.PromisedDeliveryDate),
        PROMISED_DELIVERY_DATE_FIELD, fmt(tracking.PromisedDeliveryDate))

\* run: Latest PDD, written without the comparison with the stored value
latestPddWrite_NoCompare(rawLatestPDD, currentPdd) ==
  setIf(rawLatestPDD # "" /\ isValid(rawLatestPDD), LATEST_PDD_FIELD, fmt(rawLatestPDD))

\* run: Latest PDD (overwrite allowed, forward)
latestPddWrite(rawLatestPDD, currentPdd) ==
  setIf(rawLatestPDD # "" /\ isValid(rawLatestPDD) /\ fmt(rawLatestPDD) # currentPdd,
        LATEST_PDD_FIELD, fmt(rawLatestPDD))

latestPddUpdate(issue, tracking) ==
  latestPddWrite(orElse(tracking.ExpectedDeliveryDate, tracking.PromisedDeliveryDate),
                 issue.fields[LATEST_PDD_FIELD])

\* run: RTO reason / initiated date for the cancellation event found
rtoFieldsWrite(cancelEvent, currentReason, currentRtoDate) ==
  setIf(/\ currentRtoDate = ""
        /\ orElse(cancelEvent.StatusDateTime, cancelEvent.ScanDateTime) # "",
        RTO_INITIATED_DATE_FIELD,
        fmt(orElse(cancelEvent.StatusDateTime, cancelEvent.ScanDateTime)))
  @@ setIf(currentReason = "" /\ trim(cancelEvent.Instructions) # "",
           RTO_REASON_FIELD, trim(cancelEvent.Instructions))

\* run: RTO reason / initiated date, written whatever the final status is
rtoFieldsFor_AnyPhase(cancelEvent, issue, updatedStatus) ==
  IF cancelEvent # NoScan
  THEN rtoFieldsWrite(cancelEvent, issue.fields[RTO_REASON_FIELD],
                      issue.fields[RTO_INITIATED_DATE_FIELD])
  ELSE EmptyObject

\* run: RTO reason / initiated date, written only if the final status is RTO
rtoFieldsFor(cancelEvent, issue, updatedStatus) ==
  IF cancelEvent # NoScan /\ updatedStatus \in {"RTO IN - TRANSIT", "RTO DELIVERED"}
  THEN rtoFieldsWrite(cancelEvent, issue.fields[RTO_REASON_FIELD],
                      issue.fields[RTO_INITIATED_DATE_FIELD])
  ELSE EmptyObject

rtoFieldsUpdate(issue, tracking, updatedStatus) ==
  rtoFieldsFor(findVerifiedCancellation(tracking), issue, updatedStatus)

\* run: Latest instruction, and the out-for-delivery date from the instruction
instructionWrite(latestIns, whenFromInstr, currentInstr, existingOFD) ==
  IF latestIns.isNull THEN EmptyObject
  ELSE setIf(existingOFD = "" /\ isOFDText(latestIns.instruction) /\ whenFromInstr # "",
             OUT_FOR_DELIVERY_DATE_FIELD, fmt(whenFromInstr))
       @@ setIf(latestIns.instruction # "" /\ currentInstr # latestIns.instruction,
                LATEST_INSTRUCTION_FIELD, latestIns.instruction)

\* run: the out-for-delivery date from the STATUS fallback
ofdStatusWrite(whenFromStatus, existingOFD2, updatedStatus) ==
  setIf(existingOFD2 = "" /\ updatedStatus = "OUT FOR DELIVERY" /\ whenFromStatus # "",
        OUT_FOR_DELIVERY_DATE_FIELD, fmt(whenFromStatus))

\* run: the instruction block and the STATUS fallback, for latestIns =
\* getLatestInstruction(tracking) and whenOFD = getOFDWhen(tracking, latestIns)
instructionFor(latestIns, whenOFD, issue, updatedStatus) ==
  ofdStatusWrite(whenOFD, issue.fields[OUT_FOR_DELIVERY_DATE_FIELD], updatedStatus)
  @@ instructionWrite(latestIns, whenOFD, issue.fields[LATEST_INSTRUCTION_FIELD],
                      issue.fields[OUT_FOR_DELIVERY_DATE_FIELD])

instructionWhen(latestIns, issue, tracking, updatedStatus) ==
  instructionFor(latestIns, getOFDWhen(tracking, latestIns), issue, updatedStatus)

instructionUpdate(issue, tracking, updatedStatus) ==
  instructionWhen(getLatestInstruction(tracking), issue, tracking, updatedStatus)

\* run: "Prepare field updates BEFORE skip check", the whole field delta; a
\* later block overwrites the key of an earlier one
prepareFields(issue, tracking, updatedStatus) ==
  instructionUpdate(issue, tracking, updatedStatus)
  @@ rtoFieldsUpdate(issue, tracking, updatedStatus)
  @@ latestPddUpdate(issue, tracking)
  @@ promisedDateUpdate(issue, tracking)
  @@ buildDateUpdates(issue, tracking, updatedStatus)

(***************************************************************************)
(* ---------------- Guards ----------------                                *)
(* The environment gives each variable a text, the empty text for a        *)
(* variable that is not set (undefined and "" are both falsy).             *)
(***************************************************************************)
\* the pairs of assertEnv: the name of the error line and the variable of
\* process.env that the constant is read from
RequiredEnv ==
  << [k |-> "DELHIVERY_TOKEN", from |-> "DELHIVERY_TOKEN"],
     [k |-> "JIRA_DOMAIN", from |-> "JIRA_DOMAIN"],
     [k |-> "JIRA_EMAIL", from |-> "JIRA_EMAIL"],
     [k |-> "JIRA_API_TOKEN", from |-> "JIRA_API_TOKEN"],
     [k |-> "JIRA_PROJECT", from |-> "JIRA_PROJECT"],
     [k |-> "TRACKING_FIELD", from |-> "TRACKING_FIELD"],
     [k |-> "DISPATCH_DATE_FIELD", from |-> "CUSTOMFIELD_DISPATCH_DATE"],
     [k |-> "DELIVERY_DATE_FIELD", from |-> "CUSTOMFIELD_DELIVERY_DATE"],
     [k |-> "RTO_DELIVERED_DATE_FIELD", from |-> "CUSTOMFIELD_RTO_DATE"] >>

EnvNames == {RequiredEnv[i].from : i \in 1..Len(RequiredEnv)}

\* req of assertEnv under the environment e
req(e) == [i \in 1..Len(RequiredEnv) |-> [k |-> RequiredEnv[i].k, v |-> e[RequiredEnv[i].from]]]

\* assertEnv with the three date fields optional
assertEnv_DateFieldsOptional(e) ==
  selectByMask([i \in 1..Len(req(e)) |-> req(e)[i].k],
               [i \in 1..Len(req(e)) |-> req(e)[i].v = "" /\ i <= 6])

\* assertEnv: missing, the names of the pairs whose value is falsy, in the
\* order of req; the process exits with 1 when it is not empty
assertEnv(e) ==
  selectByMask([i \in 1..Len(req(e)) |-> req(e)[i].k],
               [i \in 1..Len(req(e)) |-> req(e)[i].v = ""])

(***************************************************************************)
(* ---------------- AWB extraction ----------------                        *)
(***************************************************************************)
\* \w of the regular expressions
WordChars == charsOf(UpperChars) \cup charsOf(LowerChars) \cup Digits \cup {"_"}

isWordChar(c) == c \in WordChars

\* \b before position i of s (i in 1..Len(s)+1)
wordBoundary(s, i) ==
  LET before == i > 1 /\ isWordChar(charAt(s, i - 1))
      after == i <= Len(s) /\ isWordChar(charAt(s, i))
  IN before # after

RECURSIVE digitRun(_, _)
\* the number of consecutive digits of s from position i
digitRun(s, i) ==
  IF i <= Len(s) /\ isDigit(charAt(s, i)) THEN 1 + digitRun(s, i + 1) ELSE 0

\* (\d{10,14})\b at position i: the captured digits, "" when it does not match
digitsAt(s, i) ==
  LET n == digitRun(s, i)
  IN IF n >= 10 /\ n <= 14 /\ wordBoundary(s, i + n) THEN SubSeq(s, i, i + n - 1) ELSE ""

\* s.match(/<marker>(\d{10,14})\b/i)[1] for a literal marker, the leftmost
\* match; boundaryFirst is the \b in front of the marker
matchAfter(s, marker, boundaryFirst) ==
  LET hit(i) == /\ toLowerCase(SubSeq(s, i, i + Len(marker) - 1)) = marker
                /\ boundaryFirst => wordBoundary(s, i)
                /\ digitsAt(s, i + Len(marker)) # ""
      starts == {i \in 1..Len(s) : i + Len(marker) - 1 <= Len(s) /\ hit(i)}
  IN IF starts = {} THEN [index |-> 0, digits |-> ""]
     ELSE LET i == CHOOSE i \in starts : \A j \in starts : i <= j
          IN [index |-> i, digits |-> digitsAt(s, i + Len(marker))]

\* /(?:\bawb=|\bwaybill=)(\d{10,14})\b/i: the leftmost match of the alternation
matchMarker(s) ==
  LET a == matchAfter(s, "awb=", TRUE)
      w == matchAfter(s, "waybill=", TRUE)
  IN IF a.index = 0 THEN w.digits
     ELSE IF w.index = 0 THEN a.digits
     ELSE IF a.index <= w.index THEN a.digits ELSE w.digits

\* /\b(\d{10,14})\b/
matchJustDigits(s) ==
  LET starts == {i \in 1..Len(s) : wordBoundary(s, i) /\ digitsAt(s, i) # ""}
  IN IF starts = {} THEN ""
     ELSE digitsAt(s, CHOOSE i \in starts : \A j \in starts : i <= j)

\* a || b || ...: the first text that is not empty, "" if there is none
firstNonEmpty(texts) ==
  IF \E i \in 1..Len(texts) : texts[i] # ""
  THEN texts[CHOOSE i \in 1..Len(texts) : texts[i] # "" /\ \A j \in 1..(i - 1) : texts[j] = ""]
  ELSE ""

\* the values that a custom field of an issue can hold: a text, or something
\* that is not a string (a number, an object, null)
StringValue(text) == [type |-> "string", value |-> text]

OtherValue(type) == [type |-> type, value |-> ""]

\* the result of a call that has not been made
NotExtracted == "pending"

\* extractAWB with the bare run of digits tried before the patterns
extractAWB_DigitsFirst(v) ==
  LET s == trim(v)
  IN IF v = "" THEN ""
     ELSE firstNonEmpty(<<matchJustDigits(s), matchMarker(s), matchAfter(s, "/p/", FALSE).digits,
                          matchAfter(s, "/package/", FALSE).digits>>)

\* null is the empty string
extractAWB(v) ==
  LET s == trim(v)
  IN IF v = "" THEN ""
     ELSE firstNonEmpty(<<matchMarker(s), matchAfter(s, "/p/", FALSE).digits,
                          matchAfter(s, "/package/", FALSE).digits, matchJustDigits(s)>>)

\* extractAWB on a value of any type: typeof v !== 'string' gives null
extractAWBOf(value) ==
  IF value.type # "string" THEN "" ELSE extractAWB(value.value)

(***************************************************************************)
(* ---------------- Retry ----------------                                 *)
(* An attempt of the request either throws ("fail") or returns: the        *)
(* shipment of the payload ("ok") or null for a payload without one        *)
(* ("empty").                                                              *)
(***************************************************************************)
AttemptOutcomes == {"fail", "ok", "empty"}
retries == 3

\* the state of the loop of retry: the attempt about to be made, the number
\* of calls of fn made, whether the loop is in sleep(delayMs), and the return
NoShipment == 0

RetryStart ==
  [attempt |-> 1, calls |-> 0, sleeping |-> FALSE, returned |-> FALSE,
   result |-> NoShipment]

\* one pass of the loop body whose call of fn ends with outcome; value is what
\* fn returns when it returns; n is the parameter retries
retryStep_NoBound(st, outcome, value, n) ==
  IF outcome = "fail"
  THEN [st EXCEPT !.calls = @ + 1, !.attempt = @ + 1, !.sleeping = TRUE]
  ELSE [st EXCEPT !.calls = @ + 1, !.returned = TRUE, !.result = value]

retryStep(st, outcome, value, n) ==
  IF outcome = "fail"
  THEN [st EXCEPT !.calls = @ + 1,
                  !.attempt = @ + 1,
                  !.sleeping = st.attempt < n,
                  !.returned = ~(st.attempt < n),
                  !.result = NoShipment]
  ELSE [st EXCEPT !.calls = @ + 1, !.returned = TRUE, !.result = value]

RECURSIVE retryFold(_, _, _, _)
\* the loop run to its return over the outcomes of the successive calls
retryFold(st, outcomes, value, n) ==
  IF st.returned \/ outcomes = <<>> THEN st
  ELSE retryFold([retryStep(st, Head(outcomes), value, n) EXCEPT !.sleeping = FALSE],
                 Tail(outcomes), value, n)

\* the outcomes a run of retry can consume: failures, then a return or the n-th failure
OutcomeRuns(n) ==
  {o \in UNION {[1..m -> AttemptOutcomes] : m \in 1..n} :
     /\ \A i \in 1..(Len(o) - 1) : o[i] = "fail"
     /\ o[Len(o)] = "fail" => Len(o) = n}

(***************************************************************************)
(* ---------------- Delhivery ----------------                             *)
(* A shipment is named by its index in the list of the payloads of the     *)
(* model; getTracking gives the shipment of the payload, else null         *)
(* (NoShipment).                                                           *)
(***************************************************************************)
getTracking(shipment, outcomes) ==
  LET value == IF outcomes[Len(outcomes)] = "ok" THEN shipment ELSE NoShipment
      end == retryFold(RetryStart, outcomes, value, retries)
  IN [tracking |-> end.result, calls |-> end.calls]

(***************************************************************************)
(* ---------------- Jira (comments, transitions, updates) ----------------  *)
(* A request to Jira is recorded as a call [op, ok, fields, text]: ok says *)
(* whether Jira answered 2xx, fields is the body of a field update, text   *)
(* the transition id, the account id or the comment.                       *)
(***************************************************************************)
Call(op, ok, fields, text) == [op |-> op, ok |-> ok, fields |-> fields, text |-> text]

\* the request that fails when it is reached, if any
Faults == {"none", "listTransitions", "doTransition", "putFields", "putAssignee",
           "postComment"}

\* postCommentADF: nothing for an empty text; a failure is caught and logged
postCommentADF(commentText, fault) ==
  IF commentText = "" THEN <<>>
  ELSE <<Call("postComment", fault # "postComment", EmptyObject, commentText)>>

\* updateJira with the assignee set after every transition
isTerminalStatus_Always(newStatus) == TRUE

isTerminalStatus(newStatus) == newStatus \in {"DELIVERED", "RTO DELIVERED"}

\* updateJira with the field update sent before the transition is executed
updateJira_FieldsFirst(transitions, newStatus, customFields, comment, fault) ==
  LET list == Call("listTransitions", fault # "listTransitions", EmptyObject, "")
      transition == findTransitionByName(transitions, newStatus)
      exec == Call("doTransition", fault # "doTransition", EmptyObject, transition.id)
      put == IF hasKeys(customFields)
             THEN <<Call("putFields", fault # "putFields", customFields, "")>> ELSE <<>>
      assign == IF isTerminalStatus(newStatus)
                THEN <<Call("putAssignee", fault # "putAssignee", EmptyObject,
                            POST_DELIVERY_ASSIGNEE)>>
                ELSE <<>>
      note == IF comment = "" THEN ""
              ELSE "[Note] Intended status \"" \o newStatus
                   \o "\" but no transition was available. " \o comment
      failed(calls) == \E i \in 1..Len(calls) : ~calls[i].ok
  IN IF ~list.ok THEN <<list>>
     ELSE IF transition = NoTransition
          THEN IF failed(put) THEN <<list>> \o put
               ELSE <<list>> \o put \o postCommentADF(note, fault)
     ELSE IF failed(put) THEN <<list>> \o put
     ELSE IF ~exec.ok THEN <<list>> \o put \o <<exec>>
     ELSE IF failed(assign) THEN <<list>> \o put \o <<exec>> \o assign
     ELSE <<list>> \o put \o <<exec>> \o assign \o postCommentADF(comment, fault)

\* updateJira: the requests it makes, in order, up to the first one that
\* throws (the catch ends the function); transitions is what Jira offers
updateJira(transitions, newStatus, customFields, comment, fault) ==
  LET list == Call("listTransitions", fault # "listTransitions", EmptyObject, "")
      transition == findTransitionByName(transitions, newStatus)
      exec == Call("doTransition", fault # "doTransition", EmptyObject, transition.id)
      put == IF hasKeys(customFields)
             THEN <<Call("putFields", fault # "putFields", customFields, "")>> ELSE <<>>
      assign == IF isTerminalStatus(newStatus)
                THEN <<Call("putAssignee", fault # "putAssignee", EmptyObject,
                            POST_DELIVERY_ASSIGNEE)>>
                ELSE <<>>
      note == IF comment = "" THEN ""
              ELSE "[Note] Intended status \"" \o newStatus
                   \o "\" but no transition was available. " \o comment
      failed(calls) == \E i \in 1..Len(calls) : ~calls[i].ok
  IN IF ~list.ok THEN <<list>>
     ELSE IF transition = NoTransition
          THEN IF failed(put) THEN <<list>> \o put
               ELSE <<list>> \o put \o postCommentADF(note, fault)
     ELSE IF ~exec.ok THEN <<list, exec>>
     ELSE IF failed(put) THEN <<list, exec>> \o put
     ELSE IF failed(assign) THEN <<list, exec>> \o put \o assign
     ELSE <<list, exec>> \o put \o assign \o postCommentADF(comment, fault)

\* updateJiraFieldsOnly: one field update unless fields is empty
updateJiraFieldsOnly(fields, fault) ==
  IF ~hasKeys(fields) THEN <<>>
  ELSE <<Call("putFields", fault # "putFields", fields, "")>>

(***************************************************************************)
(* Jira itself: an issue is [key, fields, assignee, comments]; fields      *)
(* holds status.name and the custom fields.                                *)
(***************************************************************************)
CustomFieldIds ==
  {TRACKING_FIELD, DISPATCH_DATE_FIELD, DELIVERY_DATE_FIELD, RTO_DELIVERED_DATE_FIELD,
   LATEST_INSTRUCTION_FIELD, OUT_FOR_DELIVERY_DATE_FIELD, PROMISED_DELIVERY_DATE_FIELD,
   LATEST_PDD_FIELD, RTO_REASON_FIELD, RTO_INITIATED_DATE_FIELD}

\* the transition of the workflow with this id
transitionById(workflowOf, id) ==
  workflowOf[CHOOSE i \in 1..Len(workflowOf) : workflowOf[i].id = id]

\* what a request does to the issue when Jira accepts it
applyCall(issue, call, workflowOf) ==
  IF ~call.ok THEN issue
  ELSE CASE call.op = "doTransition" ->
              [issue EXCEPT !.fields.status.name = transitionById(workflowOf, call.text).to.name]
         [] call.op = "putFields" ->
              [issue EXCEPT !.fields = call.fields @@ issue.fields]
         [] call.op = "putAssignee" -> [issue EXCEPT !.assignee = call.text]
         [] call.op = "postComment" -> [issue EXCEPT !.comments = @ + 1]
         [] OTHER -> issue

RECURSIVE applyCalls(_, _, _)
applyCalls(issue, calls, workflowOf) ==
  IF calls = <<>> THEN issue
  ELSE applyCalls(applyCall(issue, Head(calls), workflowOf), Tail(calls), workflowOf)

\* GET /issue/{key}/transitions: the transitions of the workflow that leave
\* the current status
offeredTransitions(issue, workflowOf) ==
  LET leaves(t) == t.to.name # issue.fields.status.name
  IN filterSeq(workflowOf, leaves)

(***************************************************************************)
(* ---------------- The courier's payloads ----------------                *)
(***************************************************************************)
\* a payload with every field missing; malformed says that a text field of
\* Status holds a value that is no string, on which toLowerCase / trim throw
BaseShipment ==
  [Status |-> [Status |-> "", StatusType |-> "", ScanType |-> "", Instructions |-> "",
               StatusDateTime |-> ""],
   ReturnedDate |-> "", DeliveryDate |-> "", ReverseInTransit |-> FALSE,
   RTOStartedDate |-> "", OriginRecieveDate |-> "", PromisedDeliveryDate |-> "",
   ExpectedDeliveryDate |-> "", DestRecieveDate |-> "", Scans |-> <<>>,
   malformed |-> FALSE]

Scan(type, scan, instructions, scanDateTime, statusDateTime) ==
  [ScanDetail |-> [ScanType |-> type, Scan |-> scan, Instructions |-> instructions,
                   ScanDateTime |-> scanDateTime, StatusDateTime |-> statusDateTime]]

StatusOf(status, type, instructions, when) ==
  [Status |-> status, StatusType |-> type, ScanType |-> "", Instructions |-> instructions,
   StatusDateTime |-> when]

PickupScan == Scan("UD", "Picked Up", "Shipment picked up", "2024-03-02T08:00:00", "")
OfdScan == Scan("UD", "Dispatched", "Out for delivery", "2024-03-05T09:30:00",
                "2024-03-05T09:31:00")
CodeCxlScan == Scan("UD", "Pending", "Code Verified Cancellation", "2024-03-06T11:00:00",
                    "2024-03-06T11:05:00")
RefusedScan == Scan("UD", "Pending", "Consignee refused to accept/Order cancelled",
                    "2024-03-04T17:00:00", "")
RtScan == Scan("RT", "In Transit", "Dispatched for RTO", "2024-03-07T10:00:00", "")
RtoDlScan == Scan("DL", "RTO", "Return Accepted", "2024-03-09T12:00:00", "")

\* the payloads the courier serves in the model
ShipmentPool ==
  << \* 1: manifested, not yet picked up
     [BaseShipment EXCEPT
        !.Status = StatusOf("Manifested", "UD", "", "2024-03-01T10:00:00"),
        !.PromisedDeliveryDate = "2024-03-10T00:00:00"],
     \* 2: in transit, first attempt missed
     [BaseShipment EXCEPT
        !.Status = StatusOf("In Transit", "UD", "Consignee Unavailable", "2024-03-04T18:00:00"),
        !.OriginRecieveDate = "2024-03-02T08:00:00",
        !.PromisedDeliveryDate = "2024-03-10T00:00:00",
        !.ExpectedDeliveryDate = "2024-03-11T00:00:00",
        !.Scans = <<PickupScan>>],
     \* 3: out for delivery, with a revised promise
     [BaseShipment EXCEPT
        !.Status = StatusOf("Dispatched", "UD", "Out for delivery", "2024-03-05T09:32:00"),
        !.OriginRecieveDate = "2024-03-02T08:00:00",
        !.PromisedDeliveryDate = "2024-03-12T00:00:00",
        !.Scans = <<PickupScan, OfdScan>>],
     \* 4: failed attempt
     [BaseShipment EXCEPT
        !.Status = StatusOf("Pending", "UD", "Not attempted", "2024-03-05T19:00:00"),
        !.OriginRecieveDate = "2024-03-03T08:00:00",
        !.PromisedDeliveryDate = "NA",
        !.Scans = <<PickupScan, OfdScan>>],
     \* 5: delivered after a return had started
     [BaseShipment EXCEPT
        !.Status = StatusOf("Delivered", "DL", "Delivered to consignee", "2024-03-08T15:00:00"),
        !.DeliveryDate = "2024-03-08T15:00:00",
        !.RTOStartedDate = "2024-03-07T10:00:00",
        !.OriginRecieveDate = "2024-03-02T08:00:00",
        !.PromisedDeliveryDate = "2024-03-10T00:00:00",
        !.Scans = <<PickupScan, OfdScan, CodeCxlScan, RtScan>>],
     \* 6: return in transit after a verified cancellation
     [BaseShipment EXCEPT
        !.Status = StatusOf("RTO", "RT", "", "2024-03-07T10:00:00"),
        !.ReverseInTransit = TRUE,
        !.OriginRecieveDate = "2024-03-02T08:00:00",
        !.Scans = <<PickupScan, CodeCxlScan, RtScan>>],
     \* 7: return delivered, with an earlier refusal in the history
     [BaseShipment EXCEPT
        !.Status = StatusOf("RTO", "DL", "Return Accepted", "2024-03-09T12:00:00"),
        !.ReturnedDate = "2024-03-09T12:00:00",
        !.OriginRecieveDate = "2024-03-02T08:00:00",
        !.Scans = <<PickupScan, RefusedScan, CodeCxlScan, RtScan, RtoDlScan>>],
     \* 8: a label the table does not know
     [BaseShipment EXCEPT
        !.Status = StatusOf("Lost", "UD", "", "2024-03-05T10:00:00")],
     \* 9: a payload whose Status.Instructions is no string
     [BaseShipment EXCEPT
        !.Status = StatusOf("In Transit", "UD", "", "2024-03-04T18:00:00"),
        !.malformed = TRUE],
     \* 10: out for delivery again, a day later
     [BaseShipment EXCEPT
        !.Status = StatusOf("Dispatched", "UD", "Out for delivery", "2024-03-06T09:00:00"),
        !.OriginRecieveDate = "2024-03-02T08:00:00",
        !.PromisedDeliveryDate = "2024-03-13T00:00:00",
        !.Scans = <<PickupScan, OfdScan>>],
     \* 11: returned to the origin after a delivery was recorded
     [BaseShipment EXCEPT
        !.Status = StatusOf("RTO", "DL", "Return Accepted", "2024-03-11T12:00:00"),
        !.ReturnedDate = "2024-03-11T12:00:00",
        !.DeliveryDate = "2024-03-08T15:00:00",
        !.OriginRecieveDate = "2024-03-02T08:00:00",
        !.Scans = <<PickupScan, OfdScan, CodeCxlScan, RtScan, RtoDlScan>>] >>

(***************************************************************************)
(* ---------------- Issues ----------------                                *)
(***************************************************************************)
\* the issues of seq, in order, that satisfy the JQL condition
jqlStatusIs(issue, name) ==
  toLowerCase(issue.fields.status.name) = toLowerCase(name)

\* buildJqlPickup: cf IS NOT EMPTY AND status = "PICKUP SCHEDULED"
matchesJqlPickup(issue) ==
  /\ issue.fields[TRACKING_FIELD] # ""
  /\ jqlStatusIs(issue, "PICKUP SCHEDULED")

\* buildJqlOthers: cf IS NOT EMPTY AND status NOT IN ("RTO DELIVERED","PICKUP SCHEDULED")
matchesJqlOthers(issue) ==
  /\ issue.fields[TRACKING_FIELD] # ""
  /\ ~jqlStatusIs(issue, "RTO DELIVERED")
  /\ ~jqlStatusIs(issue, "PICKUP SCHEDULED")

\* getJiraIssues: [...pickupIssues, ...otherIssues], each search answering
\* with the matching issues in the order of their keys
getJiraIssues(allIssues) ==
  filterSeq(allIssues, matchesJqlPickup) \o filterSeq(allIssues, matchesJqlOthers)

(***************************************************************************)
(* ---------------- Main ----------------                                  *)
(***************************************************************************)
\* run: the switch that picks the comment of a status (null is "")
commentFor(updatedStatus) ==
  CASE updatedStatus = "IN - TRANSIT" -> "Order is now in transit"
    [] updatedStatus = "NDR" -> "Order marked as NDR (Non-Delivery Report)"
    [] updatedStatus = "RTO IN - TRANSIT" -> "Order is now RTO in transit"
    [] updatedStatus = "RTO DELIVERED" -> "Order RTO delivered"
    [] updatedStatus = "DELIVERED" -> "Order successfully delivered"
    [] updatedStatus = "OUT FOR DELIVERY" -> "Order is out for delivery"
    [] OTHER -> ""

\* run, with the test of the unchanged status never taken
statusUnchanged_Never(currentStatus, updatedStatus) == FALSE

\* run: "If status unchanged -> fields-only"
statusUnchanged(currentStatus, updatedStatus) ==
  currentStatus # "" /\ nameNorm(currentStatus) = nameNorm(updatedStatus)

\* run: classify, then "Prepare field updates BEFORE skip check"; threw says
\* that the payload made the classification throw a TypeError
decide(issue, tracking) ==
  IF tracking.malformed
  THEN [threw |-> TRUE, updatedStatus |-> "", customFields |-> EmptyObject]
  ELSE LET updatedStatus == interpretStatus(tracking)
       IN [threw |-> FALSE,
           updatedStatus |-> updatedStatus,
           customFields |-> IF updatedStatus = "" THEN EmptyObject
                            ELSE prepareFields(issue, tracking, updatedStatus)]

\* what one pass of the loop of run leaves behind: status is currentStatus
Entry(key, status, outcome, updatedStatus, customFields, trackCalls, calls, slept) ==
  [key |-> key, status |-> status, outcome |-> outcome, updatedStatus |-> updatedStatus,
   customFields |-> customFields, trackCalls |-> trackCalls, calls |-> calls,
   slept |-> slept]

\* the loop body of run without the test of the unknown status
handleIssue_NoUnknownSkip(issue, awb, got, decision, transitions, fault) ==
  LET currentStatus == issue.fields.status.name
      updatedStatus == decision.updatedStatus
      customFields == decision.customFields
  IN IF awb = ""
     THEN Entry(issue.key, currentStatus, "noAwb", "", EmptyObject, 0, <<>>, FALSE)
     ELSE IF got.tracking = NoShipment
     THEN Entry(issue.key, currentStatus, "noTracking", "", EmptyObject, got.calls, <<>>,
                FALSE)
     ELSE IF decision.threw
     THEN Entry(issue.key, currentStatus, "threw", "", EmptyObject, got.calls, <<>>, FALSE)
     ELSE IF statusUnchanged(currentStatus, updatedStatus)
     THEN Entry(issue.key, currentStatus, "fieldsOnly", updatedStatus, customFields,
                got.calls, updateJiraFieldsOnly(customFields, fault), FALSE)
     ELSE Entry(issue.key, currentStatus, "updateJira", updatedStatus, customFields,
                got.calls,
                updateJira(transitions, updatedStatus, customFields,
                           commentFor(updatedStatus), fault),
                TRUE)

\* the loop body of run without the test of the missing AWB
handleIssue_NoAwbCheck(issue, awb, got, decision, transitions, fault) ==
  LET currentStatus == issue.fields.status.name
      updatedStatus == decision.updatedStatus
      customFields == decision.customFields
  IN IF got.tracking = NoShipment
     THEN Entry(issue.key, currentStatus, "noTracking", "", EmptyObject, got.calls, <<>>,
                FALSE)
     ELSE IF decision.threw
     THEN Entry(issue.key, currentStatus, "threw", "", EmptyObject, got.calls, <<>>, FALSE)
     ELSE IF updatedStatus = ""
     THEN Entry(issue.key, currentStatus, "unknown", "", EmptyObject, got.calls, <<>>,
                FALSE)
     ELSE IF statusUnchanged(currentStatus, updatedStatus)
     THEN Entry(issue.key, currentStatus, "fieldsOnly", updatedStatus, customFields,
                got.calls, updateJiraFieldsOnly(customFields, fault), FALSE)
     ELSE Entry(issue.key, currentStatus, "updateJira", updatedStatus, customFields,
                got.calls,
                updateJira(transitions, updatedStatus, customFields,
                           commentFor(updatedStatus), fault),
                TRUE)

\* one pass of the loop body of run for issue, an element of the search
\* result: awb is extractAWB of its tracking field, got what getTracking
\* returned, decision what decide makes of the payload, transitions what Jira
\* offers for the issue, fault the Jira request that fails
handleIssue(issue, awb, got, decision, transitions, fault) ==
  LET currentStatus == issue.fields.status.name
      updatedStatus == decision.updatedStatus
      customFields == decision.customFields
  IN IF awb = ""
     THEN Entry(issue.key, currentStatus, "noAwb", "", EmptyObject, 0, <<>>, FALSE)
     ELSE IF got.tracking = NoShipment
     THEN Entry(issue.key, currentStatus, "noTracking", "", EmptyObject, got.calls, <<>>,
                FALSE)
     ELSE IF decision.threw
     THEN Entry(issue.key, currentStatus, "threw", "", EmptyObject, got.calls, <<>>, FALSE)
     ELSE IF updatedStatus = ""
     THEN Entry(issue.key, currentStatus, "unknown", "", EmptyObject, got.calls, <<>>,
                FALSE)
     ELSE IF statusUnchanged(currentStatus, updatedStatus)
     THEN Entry(issue.key, currentStatus, "fieldsOnly", updatedStatus, customFields,
                got.calls, updateJiraFieldsOnly(customFields, fault), FALSE)
     ELSE Entry(issue.key, currentStatus, "updateJira", updatedStatus, customFields,
                got.calls,
                updateJira(transitions, updatedStatus, customFields,
                           commentFor(updatedStatus), fault),
                TRUE)

(***************************************************************************)
(* ---------------- The state ----------------                             *)
(***************************************************************************)
NumIssues == 2
MaxRuns == 2
MaxOffered == 3
MaxCalls == 5

Transition(id, name) == [id |-> id, to |-> [name |-> name]]

\* the workflows of the model: the statuses under the names of the script,
\* and under names that Jira projects give them
Workflows ==
  { <<Transition("11", "PICKUP SCHEDULED"), Transition("21", "IN - TRANSIT"),
      Transition("31", "DELIVERED"), Transition("41", "RTO IN - TRANSIT"),
      Transition("51", "RTO DELIVERED")>>,
    <<Transition("11", "Pickup Scheduled"), Transition("21", "IN TRANSIT"),
      Transition("31", "Delivered"), Transition("41", "Return In Transit"),
      Transition("51", "Return Delivered")>> }

\* what the tracking field of an issue holds
TrackingValues == {"29798810134374", "https://dlv.in/p/29798810134375", "TBD"}

NewIssue(key, statusName, trackingValue) ==
  [key |-> key, assignee |-> "", comments |-> 0,
   fields |-> (TRACKING_FIELD :> trackingValue) @@ [f \in CustomFieldIds |-> ""]
              @@ [status |-> [name |-> statusName]]]

VARIABLES
  jira,       \* Jira: key -> issue
  courier,    \* the courier: key -> index of the payload of the issue's shipment
  workflow,   \* the transitions of the Jira workflow
  pc,         \* "idle", "loop" (inside run), "exited"
  runNo,      \* the number of runs started
  issues,     \* run: the search result
  pos,        \* run: the index in issues of the next pass of the loop
  trace,      \* run: what each pass of the loop did
  updated,    \* run: counter
  skipped,    \* run: counter
  summary,    \* run: the summary line has been logged
  exitCode,   \* the exit code of the process, -1 while it runs
  prior,      \* key -> the previous pass over the issue
  record,     \* interpretStatus: the payload t
  phase,      \* interpretStatus: what it returned, "pending" before the call
  offered,    \* findTransitionByName: transitions
  target,     \* findTransitionByName: target
  resolved,   \* findTransitionByName: what it returned, Pending before the call
  rpc,        \* retry: "call", "await" (inside await fn()), "sleep", "done"
  rst,        \* retry: the state of its loop
  rretries,   \* retry: the parameter retries
  rpayload,   \* retry: the shipment of the payload the courier answers with
  routcomes,  \* retry: how the calls of fn ended, in order
  inflight,   \* retry: the number of requests in flight
  env,        \* the process: name of a required value -> whether it is set
  boot,       \* the process: "start", "ok" (assertEnv passed), "fatal"
  logged,     \* assertEnv: the names on the error line
  unhandled,  \* the process: a failure reached the process handlers
  field,      \* extractAWB: the argument v
  extracted,  \* extractAWB: what it returned, NotExtracted before the call
  matching,   \* fetchAllIssues: the number of issues that match the JQL
  all,        \* fetchAllIssues: all
  nextPageToken, \* fetchAllIssues: nextPageToken, null being 0
  startAt,    \* fetchAllIssues: startAt
  fpc         \* fetchAllIssues: "idle", "fetch" (in the loop), "done", "threw"

driverVars ==
  <<jira, courier, workflow, pc, runNo, issues, pos, trace, updated, skipped, summary,
    exitCode, prior>>

classifyVars == <<record, phase>>

resolveVars == <<offered, target, resolved>>

retryVars == <<rpc, rst, rretries, rpayload, routcomes, inflight>>

processVars == <<env, boot, logged, unhandled>>

extractVars == <<field, extracted>>

fetchVars == <<matching, all, nextPageToken, startAt, fpc>>

vars ==
  <<driverVars, classifyVars, resolveVars, retryVars, processVars, extractVars, fetchVars>>

Keys == DOMAIN jira

NoPrior == [clean |-> FALSE, shipment |-> NoShipment]

\* no process is running
DriverIdle ==
  /\ jira = <<>>
  /\ courier = <<>>
  /\ workflow = <<>>
  /\ pc = "idle"
  /\ runNo = 0
  /\ issues = <<>>
  /\ pos = 1
  /\ trace = <<>>
  /\ updated = 0
  /\ skipped = 0
  /\ summary = FALSE
  /\ exitCode = -1
  /\ prior = <<>>

\* no call of interpretStatus is under way
ClassifyIdle ==
  /\ record = BaseShipment
  /\ phase = ""

\* no call of findTransitionByName is under way
ResolveIdle ==
  /\ offered = <<>>
  /\ target = ""
  /\ resolved = NoTransition

\* no call of retry is under way
RetryIdle ==
  /\ rpc = "done"
  /\ rst = RetryStart
  /\ rretries = retries
  /\ rpayload = NoShipment
  /\ routcomes = <<>>
  /\ inflight = 0

\* assertEnv has passed: every required value is set, nothing has failed
ProcessIdle ==
  /\ env = [k \in EnvNames |-> "set"]
  /\ boot = "ok"
  /\ logged = <<>>
  /\ unhandled = FALSE

\* no call of fetchAllIssues is under way
FetchIdle ==
  /\ matching = 0
  /\ all = <<>>
  /\ nextPageToken = 0
  /\ startAt = 0
  /\ fpc = "idle"

\* extractAWB is not under study
ExtractIdle ==
  /\ field = StringValue("")
  /\ extracted = NotExtracted

\* n issues, each in one of the statuses of the workflow numbered in statuses,
\* with tracking values of trackingValues and shipments of pool
DriverInit(n, statuses, trackingValues, pool) ==
  /\ workflow \in Workflows
  /\ jira \in {j \in [1..n -> {NewIssue(k, workflow[i].to.name, v) :
                                 k \in 1..n, i \in statuses, v \in trackingValues}] :
                 \A k \in 1..n : j[k].key = k}
  /\ courier \in [1..n -> pool]
  /\ pc = "idle"
  /\ runNo = 0
  /\ issues = <<>>
  /\ pos = 1
  /\ trace = <<>>
  /\ updated = 0
  /\ skipped = 0
  /\ summary = FALSE
  /\ exitCode = -1
  /\ prior = [k \in 1..n |-> NoPrior]
  /\ ClassifyIdle
  /\ ResolveIdle
  /\ RetryIdle
  /\ ExtractIdle

\* all the issues of Jira in the order of their keys
allIssues == [k \in Keys |-> jira[k]]

\* a new process: assertEnv() has returned and run() is called
BeginRun(limit) ==
  /\ boot = "ok"
  /\ pc \in {"idle", "exited"}
  /\ runNo < limit
  /\ runNo' = runNo + 1
  /\ pos' = 1
  /\ trace' = <<>>
  /\ updated' = 0
  /\ skipped' = 0
  /\ summary' = FALSE
  /\ UNCHANGED <<jira, courier, workflow, prior, classifyVars, resolveVars, retryVars,
                 processVars, extractVars, fetchVars>>

\* run: getJiraIssues() answers with issues to handle
StartRun(limit) ==
  /\ BeginRun(limit)
  /\ getJiraIssues(allIssues) # <<>>
  /\ issues' = getJiraIssues(allIssues)
  /\ pc' = "loop"
  /\ exitCode' = -1

\* run: "No issues found for the current window."
StartRunNoIssues(limit) ==
  /\ BeginRun(limit)
  /\ getJiraIssues(allIssues) = <<>>
  /\ issues' = <<>>
  /\ pc' = "exited"
  /\ exitCode' = 0

\* run: getJiraIssues() throws; run().catch exits with 1
StartRunSearchFails(limit) ==
  /\ BeginRun(limit)
  /\ issues' = <<>>
  /\ pc' = "exited"
  /\ exitCode' = 1

\* run, with the try around the loop: an exception ends the loop
loopContinues_TryAroundLoop(entry) == entry.outcome # "threw"

\* run: the try / catch is inside the loop, every pass is followed by the next
loopContinues(entry) == TRUE

\* the pass reached the write path and none of its requests failed
isClean(entry, outcomes) ==
  /\ entry.outcome \in {"fieldsOnly", "updateJira"}
  /\ \A i \in 1..Len(entry.calls) : entry.calls[i].ok
  /\ \A i \in 1..Len(outcomes) : outcomes[i] # "fail"

\* the pass with what the properties need to know of it: clean, and repeat,
\* which says that it is clean and comes after a clean pass for the same
\* shipment record
noted(entry, clean, repeat) == entry @@ [clean |-> clean, repeat |-> clean /\ repeat]

\* run: the passes of the loop body that are possible for issue, the
\* shipment being the one of the courier: one for each way the requests of
\* the pass can fail
passesFor(issue, awb, decision, shipment, transitions, repeat) ==
  { noted(handleIssue(issue, awb, getTracking(shipment, outcomes), decision,
                      transitions, fault),
          isClean(handleIssue(issue, awb, getTracking(shipment, outcomes), decision,
                              transitions, fault), outcomes),
          repeat) :
      outcomes \in OutcomeRuns(retries), fault \in Faults }

passesOf(issue, shipment, transitions, repeat) ==
  passesFor(issue, extractAWB(issue.fields[TRACKING_FIELD]),
            decide(issue, ShipmentPool[shipment]), shipment, transitions, repeat)

\* run: the effects of the pass of the loop that entry records
Record(k, entry) ==
  /\ trace' = Append(trace, entry)
  /\ jira' = [jira EXCEPT ![k] = applyCalls(@, entry.calls, workflow)]
  /\ updated' = IF entry.outcome = "updateJira" THEN updated + 1 ELSE updated
  /\ skipped' = IF entry.outcome = "fieldsOnly" THEN skipped + 1 ELSE skipped
  /\ prior' = [prior EXCEPT ![k] = [clean |-> entry.clean, shipment |-> courier[k]]]
  /\ pos' = IF loopContinues(entry) THEN pos + 1 ELSE Len(issues) + 1

\* run: one pass of the for loop
HandleIssue ==
  /\ pc = "loop"
  /\ pos <= Len(issues)
  /\ \E entry \in passesOf(issues[pos], courier[issues[pos].key],
                           offeredTransitions(jira[issues[pos].key], workflow),
                           prior[issues[pos].key].clean
                             /\ prior[issues[pos].key].shipment = courier[issues[pos].key]) :
       Record(issues[pos].key, entry)
  /\ UNCHANGED <<courier, workflow, pc, runNo, issues, summary, exitCode, classifyVars,
                 resolveVars, retryVars, processVars, extractVars, fetchVars>>

\* run: the loop is over, the summary is logged and the process ends
FinishRun ==
  /\ pc = "loop"
  /\ pos > Len(issues)
  /\ summary' = TRUE
  /\ exitCode' = 0
  /\ pc' = "exited"
  /\ UNCHANGED <<jira, courier, workflow, runNo, issues, pos, trace, updated, skipped,
                 prior, classifyVars, resolveVars, retryVars, processVars, extractVars,
                 fetchVars>>

\* the courier moves a shipment on between two runs
ShipmentChanges ==
  /\ pc \in {"idle", "exited"}
  /\ runNo < MaxRuns
  /\ \E k \in Keys, i \in 1..Len(ShipmentPool) :
       /\ courier[k] # i
       /\ courier' = [courier EXCEPT ![k] = i]
  /\ UNCHANGED <<jira, workflow, pc, runNo, issues, pos, trace, updated, skipped,
                 summary, exitCode, prior, classifyVars, resolveVars, retryVars,
                 processVars, extractVars, fetchVars>>

(***************************************************************************)
(* Spec: one issue over MaxRuns successive runs, the shipment moving on    *)
(* between the runs.                                                       *)
(***************************************************************************)
Init ==
  /\ DriverInit(1, {1, 2}, TrackingValues, 1..Len(ShipmentPool))
  /\ ProcessIdle
  /\ FetchIdle

Next ==
  \/ StartRun(MaxRuns)
  \/ StartRunNoIssues(MaxRuns)
  \/ StartRunSearchFails(MaxRuns)
  \/ HandleIssue
  \/ FinishRun
  \/ ShipmentChanges

Spec == Init /\ [][Next]_vars

(***************************************************************************)
(* SpecBatch: one run over a batch of NumIssues issues.  The loop of run   *)
(* awaits one request after the other and each request settles, so the     *)
(* loop moves on to the next issue, and past the last one to the summary.  *)
(***************************************************************************)
BatchTrackingValues == {"29798810134374", "TBD"}
BatchPool == {2, 5, 7, 8, 9}

BatchInit ==
  /\ DriverInit(NumIssues, {1, 5}, BatchTrackingValues, BatchPool)
  /\ ProcessIdle
  /\ FetchIdle

BatchNext ==
  \/ StartRun(1)
  \/ StartRunNoIssues(1)
  \/ StartRunSearchFails(1)
  \/ HandleIssue
  \/ FinishRun

\* run: the for loop moves on to the next issue
loopAdvances == pc = "loop" /\ pos <= Len(issues) /\ pos' = pos + 1

SpecBatch ==
  BatchInit /\ [][BatchNext]_vars /\ WF_pos(loopAdvances) /\ WF_vars(FinishRun)

(***************************************************************************)
(* SpecHandoff: successive runs, without end, over one ticket whose        *)
(* shipment is delivered, or returned, and does not change.  The scheduler *)
(* starts the runs one after the other, every search answers, and each run *)
(* goes through its loop to its summary.  The runs after the first MaxRuns *)
(* ones are not counted.                                                   *)
(***************************************************************************)
HandoffPool == {5, 7}

HandoffInit ==
  /\ DriverInit(1, {2}, {"29798810134374"}, HandoffPool)
  /\ ProcessIdle
  /\ FetchIdle

\* the comments counted on one ticket
MaxComments == 4

\* a new process after the first MaxRuns ones: run() is called and the
\* search answers
LaterRun ==
  /\ boot = "ok"
  /\ pc = "exited"
  /\ runNo = MaxRuns
  /\ \A i \in 1..Len(jira) : jira[i].comments < MaxComments
  /\ pos' = 1
  /\ trace' = <<>>
  /\ updated' = 0
  /\ skipped' = 0
  /\ summary' = FALSE
  /\ issues' = getJiraIssues(allIssues)
  /\ pc' = IF getJiraIssues(allIssues) = <<>> THEN "exited" ELSE "loop"
  /\ exitCode' = IF getJiraIssues(allIssues) = <<>> THEN 0 ELSE -1
  /\ UNCHANGED <<jira, courier, workflow, runNo, prior, classifyVars, resolveVars,
                 retryVars, processVars, extractVars, fetchVars>>

HandoffNext ==
  \/ StartRun(MaxRuns)
  \/ StartRunNoIssues(MaxRuns)
  \/ LaterRun
  \/ HandleIssue
  \/ FinishRun

\* the scheduler starts the next process
runBegins ==
  /\ boot = "ok"
  /\ pc \in {"idle", "exited"}
  /\ runNo < MaxRuns
  /\ runNo' = runNo + 1

SpecHandoff ==
  /\ HandoffInit
  /\ [][HandoffNext]_vars
  /\ WF_runNo(runBegins)
  /\ WF_vars(LaterRun)
  /\ WF_pos(loopAdvances)
  /\ WF_vars(FinishRun)

(***************************************************************************)
(* SpecProcess: one process from its start to its exit, under every        *)
(* environment: assertEnv at the load of the module, then run over one     *)
(* issue, with a failure that reaches the handlers of the process.         *)
(***************************************************************************)
ProcessPool == {2, 8}

ProcessInit ==
  /\ DriverInit(1, {1, 5}, BatchTrackingValues, ProcessPool)
  /\ env \in [EnvNames -> {"", "set"}]
  /\ boot = "start"
  /\ logged = <<>>
  /\ unhandled = FALSE
  /\ FetchIdle

\* assertEnv(): the missing names are logged on one line and the process
\* exits with 1, or the load of the module goes on to run()
AssertEnv ==
  /\ boot = "start"
  /\ logged' = assertEnv(env)
  /\ boot' = IF assertEnv(env) = <<>> THEN "ok" ELSE "fatal"
  /\ exitCode' = IF assertEnv(env) = <<>> THEN exitCode ELSE 1
  /\ pc' = IF assertEnv(env) = <<>> THEN pc ELSE "exited"
  /\ UNCHANGED <<jira, courier, workflow, runNo, issues, pos, trace, updated, skipped,
                 summary, prior, env, unhandled, classifyVars, resolveVars, retryVars,
                 extractVars, fetchVars>>

\* process.on('unhandledRejection') / process.on('uncaughtException'): a
\* failure outside the awaited requests of run is logged by the handler, and
\* the process goes on
UnhandledFailure ==
  /\ pc = "loop"
  /\ ~unhandled
  /\ unhandled' = TRUE
  /\ UNCHANGED <<driverVars, env, boot, logged, classifyVars, resolveVars, retryVars,
                 extractVars, fetchVars>>

ProcessNext ==
  \/ AssertEnv
  \/ StartRun(1)
  \/ StartRunNoIssues(1)
  \/ StartRunSearchFails(1)
  \/ HandleIssue
  \/ FinishRun
  \/ UnhandledFailure

SpecProcess == ProcessInit /\ [][ProcessNext]_vars

(***************************************************************************)
(* SpecClassify: interpretStatus applied to the payloads of a bounded      *)
(* space of well-typed records.                                            *)
(***************************************************************************)
ClassifyLabels == DOMAIN STATUS_MAP \cup {"", " Pending ", "Lost", "constructor"}
ClassifyTypes == {"", "UD", "DL", "RT", "RET"}
ClassifyInstructions ==
  {"", "Consignee Unavailable", "Return Accepted", "Delivered to consignee",
   "Dispatched for RTO", "Not attempted: consignee unavailable"}
ClassifyDates == {"", "2024-03-08T15:00:00"}
ClassifyScans ==
  { <<>>,
    <<PickupScan, RtScan>>,
    <<PickupScan, RtScan, RtoDlScan>>,
    <<RtScan>> \o [i \in 1..(lookback - 1) |-> PickupScan],
    <<RtScan>> \o [i \in 1..lookback |-> PickupScan] }

ClassifyRecords ==
  { [BaseShipment EXCEPT
       !.Status = StatusOf(label, type, instructions, "2024-03-08T15:00:00"),
       !.ReturnedDate = returned,
       !.DeliveryDate = delivered,
       !.ReverseInTransit = reverse,
       !.RTOStartedDate = rtoStarted,
       !.Scans = scans] :
      label \in ClassifyLabels, type \in ClassifyTypes,
      instructions \in ClassifyInstructions, returned \in ClassifyDates,
      delivered \in ClassifyDates, reverse \in BOOLEAN, rtoStarted \in ClassifyDates,
      scans \in ClassifyScans }

ClassifyInit ==
  /\ record \in ClassifyRecords
  /\ phase = "pending"
  /\ DriverIdle
  /\ ResolveIdle
  /\ RetryIdle
  /\ ProcessIdle
  /\ FetchIdle
  /\ ExtractIdle

Classify ==
  /\ phase = "pending"
  /\ phase' = interpretStatus(record)
  /\ UNCHANGED <<record, driverVars, resolveVars, retryVars, processVars, extractVars, fetchVars>>

ClassifyNext == Classify

SpecClassify == ClassifyInit /\ [][ClassifyNext]_vars

(***************************************************************************)
(* SpecResolve: findTransitionByName applied to the lists of at most       *)
(* MaxOffered different transitions.                                       *)
(***************************************************************************)
ResolveTransitions ==
  {Transition("21", "IN - TRANSIT"), Transition("41", "Return In-Transit"),
   Transition("42", "Return In Transit"), Transition("43", "RTO IN - TRANSIT"),
   Transition("44", "RTO Transit"), Transition("51", "Return Delivered")}

ResolveTargets ==
  {"PICKUP SCHEDULED", "IN - TRANSIT", "NDR", "DELIVERED", "RTO IN - TRANSIT",
   "RTO DELIVERED"}

\* findTransitionByName has not returned yet
Pending == Transition("pending", "")

ResolveInit ==
  /\ offered \in {o \in UNION {[1..n -> ResolveTransitions] : n \in 0..MaxOffered} :
                    \A i, j \in 1..Len(o) : o[i] = o[j] => i = j}
  /\ target \in ResolveTargets
  /\ resolved = Pending
  /\ DriverIdle
  /\ ClassifyIdle
  /\ RetryIdle
  /\ ProcessIdle
  /\ FetchIdle
  /\ ExtractIdle

Resolve ==
  /\ resolved = Pending
  /\ resolved' = findTransitionByName(offered, target)
  /\ UNCHANGED <<offered, target, driverVars, classifyVars, retryVars, processVars, extractVars, fetchVars>>

ResolveNext == Resolve

SpecResolve == ResolveInit /\ [][ResolveNext]_vars

(***************************************************************************)
(* SpecExtract: extractAWB applied to the values that a tracking field can *)
(* hold: texts made of at most MaxFragments different fragments separated  *)
(* by blanks, and values that are not strings.                             *)
(***************************************************************************)
MaxFragments == 3

\* a fragment: its text, the pattern it is written for ("marker", "path",
\* "digits", or "none" for a text that no pattern matches), and its digits
Fragment(text, kind, id) == [text |-> text, kind |-> kind, id |-> id]

ExtractFragments ==
  {Fragment("awb=29798810134374", "marker", "29798810134374"),
   Fragment("WAYBILL=1234567890", "marker", "1234567890"),
   Fragment("https://dlv.in/p/29798810134375", "path", "29798810134375"),
   Fragment("/package/12345678901?x", "path", "12345678901"),
   Fragment("29798810134376", "digits", "29798810134376"),
   Fragment("xawb=29798810134377", "digits", "29798810134377"),
   Fragment("awb=123456789", "none", ""),
   Fragment("297988101343780", "none", "")}

RECURSIVE joinTexts(_)
\* the texts of the fragments, each one followed by a blank
joinTexts(fragments) ==
  IF fragments = <<>> THEN ""
  ELSE Head(fragments).text \o " " \o joinTexts(Tail(fragments))

ExtractTexts ==
  {joinTexts(f) : f \in {g \in UNION {[1..n -> ExtractFragments] : n \in 0..MaxFragments} :
                           \A i, j \in 1..Len(g) : g[i] = g[j] => i = j}}

ExtractValues ==
  {StringValue(text) : text \in ExtractTexts}
    \cup {OtherValue(type) : type \in {"number", "object", "undefined"}}

ExtractInit ==
  /\ field \in ExtractValues
  /\ extracted = NotExtracted
  /\ DriverIdle
  /\ ClassifyIdle
  /\ ResolveIdle
  /\ RetryIdle
  /\ ProcessIdle
  /\ FetchIdle

Extract ==
  /\ extracted = NotExtracted
  /\ extracted' = extractAWBOf(field)
  /\ UNCHANGED <<field, driverVars, classifyVars, resolveVars, retryVars, processVars, fetchVars>>

ExtractNext == Extract

SpecExtract == ExtractInit /\ [][ExtractNext]_vars

(***************************************************************************)
(* SpecFetch: fetchAllIssues for one JQL whose result set is the issues    *)
(* 1..matching in the order of the search, a page holding pageSize of      *)
(* them.  Each request of the enhanced search answers or fails; after a    *)
(* failure the classic search answers or fails too.                        *)
(***************************************************************************)
MaxMatching == 8

\* the script asks for pages of 50; the pages of the model are small
pageSize == 2

\* the issues of the result set after the first from ones, at most a page
pageFrom(n, from) ==
  [i \in 1..(IF n - from < pageSize THEN (IF n > from THEN n - from ELSE 0) ELSE pageSize)
     |-> from + i]

\* jiraSearchJQLEnhanced: POST /search/jql answers with a page, isLast and,
\* unless the page is the last one, the token of the next page (the token
\* of the model is the number of issues before the page)
jiraSearchJQLEnhanced(n, token) ==
  [issues |-> pageFrom(n, token),
   isLast |-> token + pageSize >= n,
   nextPageToken |-> IF token + pageSize >= n THEN 0 ELSE token + pageSize]

\* jiraSearchClassic: POST /search answers with a page, startAt and total
jiraSearchClassic(n, from) ==
  [issues |-> pageFrom(n, from), startAt |-> from, total |-> n]

FetchInit ==
  /\ matching \in 0..MaxMatching
  /\ all = <<>>
  /\ nextPageToken = 0
  /\ startAt = 0
  /\ fpc = "fetch"
  /\ DriverIdle
  /\ ClassifyIdle
  /\ ResolveIdle
  /\ RetryIdle
  /\ ProcessIdle
  /\ ExtractIdle

\* fetchAllIssues: the enhanced search answers; "Enhanced pagination"
FetchEnhanced ==
  /\ fpc = "fetch"
  /\ LET data == jiraSearchJQLEnhanced(matching, nextPageToken) IN
       /\ all' = all \o data.issues
       /\ nextPageToken' = IF ~data.isLast /\ data.nextPageToken # 0
                           THEN data.nextPageToken ELSE nextPageToken
       /\ fpc' = IF data.isLast THEN "done"
                 ELSE IF data.nextPageToken # 0
                      THEN (IF Len(data.issues) = 0 THEN "done" ELSE "fetch")
                 ELSE "done"
  /\ UNCHANGED <<matching, startAt, driverVars, classifyVars, resolveVars, retryVars,
                 processVars, extractVars>>

\* fetchAllIssues: the enhanced search fails and jiraSearchJQL falls back to
\* the classic search with startAt; "Classic pagination fallback"
FetchClassic ==
  /\ fpc = "fetch"
  /\ LET data == jiraSearchClassic(matching, startAt) IN
       /\ all' = all \o data.issues
       /\ startAt' = data.startAt + Len(data.issues)
       /\ fpc' = IF data.startAt + Len(data.issues) >= data.total \/ Len(data.issues) = 0
                 THEN "done" ELSE "fetch"
  /\ UNCHANGED <<matching, nextPageToken, driverVars, classifyVars, resolveVars,
                 retryVars, processVars, extractVars>>

\* fetchAllIssues: both searches fail and jiraSearchJQL throws
FetchThrows ==
  /\ fpc = "fetch"
  /\ fpc' = "threw"
  /\ UNCHANGED <<matching, all, nextPageToken, startAt, driverVars, classifyVars,
                 resolveVars, retryVars, processVars, extractVars>>

FetchNext ==
  \/ FetchEnhanced
  \/ FetchClassic
  \/ FetchThrows

SpecFetch == FetchInit /\ [][FetchNext]_vars

(***************************************************************************)
(* SpecRetry: the loop of retry, one step at a time, around the request of *)
(* getTracking.                                                            *)
(***************************************************************************)
RetryInit ==
  /\ rpc = "call"
  /\ rst = RetryStart
  /\ rretries \in 1..retries
  /\ rpayload \in 1..Len(ShipmentPool)
  /\ routcomes = <<>>
  /\ inflight = 0
  /\ DriverIdle
  /\ ClassifyIdle
  /\ ResolveIdle
  /\ ProcessIdle
  /\ FetchIdle
  /\ ExtractIdle

\* retry: fn() is called, the request leaves
CallFn ==
  /\ rpc = "call"
  /\ ~rst.returned
  /\ rst.calls < MaxCalls
  /\ rpc' = "await"
  /\ inflight' = inflight + 1
  /\ UNCHANGED <<rst, rretries, rpayload, routcomes, driverVars, classifyVars,
                 resolveVars, processVars, extractVars, fetchVars>>

\* retry: await fn() settles; getTracking's fn returns the shipment of the
\* payload, or null for a payload without one
FnSettles ==
  /\ rpc = "await"
  /\ \E outcome \in AttemptOutcomes :
       /\ rst' = retryStep(rst, outcome,
                           IF outcome = "ok" THEN rpayload ELSE NoShipment, rretries)
       /\ routcomes' = Append(routcomes, outcome)
  /\ inflight' = inflight - 1
  /\ rpc' = IF rst'.returned THEN "done" ELSE IF rst'.sleeping THEN "sleep" ELSE "call"
  /\ UNCHANGED <<rretries, rpayload, driverVars, classifyVars, resolveVars, processVars, extractVars,
                 fetchVars>>

\* retry: sleep(delayMs) is over
Wake ==
  /\ rpc = "sleep"
  /\ rst' = [rst EXCEPT !.sleeping = FALSE]
  /\ rpc' = "call"
  /\ UNCHANGED <<rretries, rpayload, routcomes, inflight, driverVars, classifyVars,
                 resolveVars, processVars, extractVars, fetchVars>>

RetryNext == CallFn \/ FnSettles \/ Wake

SpecRetry == RetryInit /\ [][RetryNext]_vars

(***************************************************************************)
(* ---------------- Properties ----------------                            *)
(***************************************************************************)
\* the ops of the calls of a pass, in order
opsOf(entry) == [i \in 1..Len(entry.calls) |-> entry.calls[i].op]

\* the pass made a request of kind op
called(entry, op) == \E i \in 1..Len(entry.calls) : entry.calls[i].op = op

\* the pass took the transition path and Jira listed transitions none of
\* which resolved to the classified phase
nothingResolved(entry) ==
  /\ entry.outcome = "updateJira"
  /\ entry.calls # <<>>
  /\ entry.calls[1].op = "listTransitions"
  /\ entry.calls[1].ok
  /\ ~called(entry, "doTransition")

\* C1: Idempotence across runs.  A pass over a ticket whose previous pass
\* went through without a failed request, for the same unchanged shipment
\* record, computes an empty field delta and makes no transition listing or
\* execution call.
SecondRunIsQuiet ==
  \A i \in 1..Len(trace) :
    trace[i].repeat =>
      /\ trace[i].customFields = EmptyObject
      /\ ~called(trace[i], "listTransitions")
      /\ ~called(trace[i], "doTransition")

\* C2: Unresolvable-transition guard.  A pass that takes the transition path
\* and finds no offered transition resolving to the classified phase issues
\* no field update, no comment and no assignee change.
NoWriteWithoutTransition ==
  \A i \in 1..Len(trace) :
    nothingResolved(trace[i]) =>
      /\ ~called(trace[i], "putFields")
      /\ ~called(trace[i], "postComment")
      /\ ~called(trace[i], "putAssignee")

WriteOnceFields ==
  {PROMISED_DELIVERY_DATE_FIELD, RTO_REASON_FIELD, RTO_INITIATED_DATE_FIELD,
   OUT_FOR_DELIVERY_DATE_FIELD}

\* the step is a pass of the loop over the issue k
passOver(k) == Len(trace') = Len(trace) + 1 /\ trace'[Len(trace')].key = k

returnInProgress(t) ==
  \/ t.RTOStartedDate # ""
  \/ t.ReverseInTransit
  \/ \E i \in 1..Len(t.Scans) : t.Scans[i].ScanDetail.ScanType = "RT"

\* the text tells of a completed return
tellsReturn(label, instructions) ==
  \/ includes(toLowerCase(label), "rto")
  \/ includes(toLowerCase(instructions), "return accepted")

\* the record carries a terminal-return signal: the return-completion
\* timestamp, or a delivery-type status or scan whose text tells of the return
terminalReturn(t) ==
  \/ t.ReturnedDate # ""
  \/ t.Status.StatusType = "DL" /\ tellsReturn(t.Status.Status, t.Status.Instructions)
  \/ \E i \in 1..Len(t.Scans) :
       /\ t.Scans[i].ScanDetail.ScanType = "DL"
       /\ tellsReturn(t.Scans[i].ScanDetail.Scan, t.Scans[i].ScanDetail.Instructions)

\* C4: Phase priority.  A record with a return-in-progress signal and a
\* delivery timestamp, and without a terminal-return signal, classifies as
\* DELIVERED, never as RTO IN - TRANSIT.
DeliveredOutranksReturnLeg ==
  (/\ phase # "pending"
   /\ returnInProgress(record)
   /\ record.DeliveryDate # ""
   /\ ~terminalReturn(record)) => phase = "DELIVERED"

DeliveredAfterReturnStart ==
  /\ phase = "DELIVERED"
  /\ record.DeliveryDate # ""
  /\ record.ReverseInTransit
  /\ record.RTOStartedDate # ""
  /\ record.Status.StatusType = "RT"
  /\ \E i \in 1..Len(record.Scans) : record.Scans[i].ScanDetail.ScanType = "RT"
  /\ ~terminalReturn(record)

\* C5: Terminal-return dominance.  A record with a non-empty ReturnedDate
\* classifies as RTO DELIVERED whatever its other fields hold.
ReturnedDateDominates ==
  (phase # "pending" /\ record.ReturnedDate # "") => phase = "RTO DELIVERED"

ReturnedDespiteDelivery ==
  /\ phase = "RTO DELIVERED"
  /\ record.ReturnedDate # ""
  /\ record.DeliveryDate # ""
  /\ record.Status.Status = "Delivered"
  /\ record.Status.Instructions = "Delivered to consignee"
  /\ record.ReverseInTransit
  /\ record.Scans = <<>>

\* C6: Already-in-phase path.  A pass for a ticket whose status name
\* normalizes to the normalized classified phase makes at most one request,
\* a field update carrying the field delta: no transition listing, no
\* transition execution, no comment, no assignee change.
InPhaseOnlyFields ==
  \A i \in 1..Len(trace) :
    (/\ trace[i].updatedStatus # ""
     /\ trace[i].status # ""
     /\ nameNorm(trace[i].status) = nameNorm(trace[i].updatedStatus)) =>
      \/ trace[i].calls = <<>>
      \/ /\ opsOf(trace[i]) = <<"putFields">>
         /\ trace[i].calls[1].fields = trace[i].customFields

InPhaseFieldUpdate ==
  \E i \in 1..Len(trace) :
    /\ trace[i].updatedStatus # ""
    /\ trace[i].status # trace[i].updatedStatus
    /\ nameNorm(trace[i].status) = nameNorm(trace[i].updatedStatus)
    /\ opsOf(trace[i]) = <<"putFields">>
    /\ trace[i].calls[1].ok

\* the instruction text is "Consignee Unavailable" and the record has no
\* delivery timestamp and no return-completion timestamp
unavailableUnsettled(t) ==
  /\ t.Status.Instructions = "Consignee Unavailable"
  /\ t.DeliveryDate = ""
  /\ t.ReturnedDate = ""

earlierRuleSignal(t) ==
  \/ terminalReturn(t)
  \/ t.Status.StatusType = "DL"
  \/ includes(toLowerCase(t.Status.Status), "delivered")
  \/ t.Status.StatusType \in {"RT", "RTO", "RET"}
  \/ t.ReverseInTransit
  \/ t.RTOStartedDate # ""
  \/ \E i \in 1..Len(t.Scans) :
       i > Len(t.Scans) - lookback /\ t.Scans[i].ScanDetail.ScanType = "RT"
  \/ includes(toLowerCase(t.Status.Status), "rto")

ReturnLegNames == {"Return In-Transit", "Return In Transit", "RTO IN - TRANSIT", "RTO Transit"}

\* the places in offered of the transitions to a return in transit
returnLegOffers == {i \in 1..Len(offered) : offered[i].to.name \in ReturnLegNames}

\* C8: Alias-tolerant resolution.  For RTO IN - TRANSIT, when the single
\* offered transition to a return in transit is named "Return In-Transit",
\* and when it is named "Return In Transit", the resolver returns it.
ReturnNamesResolve ==
  \A i \in 1..Len(offered) :
    (/\ resolved # Pending
     /\ target = "RTO IN - TRANSIT"
     /\ returnLegOffers = {i}
     /\ offered[i].to.name \in {"Return In-Transit", "Return In Transit"}) =>
      resolved = offered[i]

ReturnNameResolvedLast ==
  /\ target = "RTO IN - TRANSIT"
  /\ Len(offered) = MaxOffered
  /\ returnLegOffers = {MaxOffered}
  /\ offered[MaxOffered].to.name = "Return In-Transit"
  /\ resolved = offered[MaxOffered]

\* C9: Bounded retry.  fn is called at most retries times, one call at a
\* time; every call before the last one failed; a call that returns ends the
\* loop with its result; retries failed calls end it with null.
RetryIsBounded ==
  /\ rst.calls <= rretries
  /\ inflight \in {0, 1}
  /\ inflight = 1 <=> rpc = "await"
  /\ Len(routcomes) = rst.calls
  /\ \A i \in 1..(Len(routcomes) - 1) : routcomes[i] = "fail"
  /\ (routcomes # <<>> /\ routcomes[Len(routcomes)] = "ok") =>
       (rpc = "done" /\ rst.result = rpayload)
  /\ (routcomes # <<>> /\ routcomes[Len(routcomes)] = "empty") =>
       (rpc = "done" /\ rst.result = NoShipment)
  /\ (Len(routcomes) = rretries /\ routcomes[Len(routcomes)] = "fail") =>
       (rpc = "done" /\ rst.result = NoShipment)
  /\ rpc = "done" =>
       (Len(routcomes) = rretries \/ routcomes[Len(routcomes)] # "fail")

RetryExhausted ==
  /\ rpc = "done"
  /\ rretries = retries
  /\ routcomes = [i \in 1..retries |-> "fail"]
  /\ rst.calls = retries
  /\ rst.result = NoShipment

\* the passes made so far are over the first issues of the batch, in order
inBatchOrder ==
  /\ Len(trace) <= Len(issues)
  /\ \A i \in 1..Len(trace) : trace[i].key = issues[i].key

\* C10: Per-ticket failure isolation.  Whatever passes throw, the passes are
\* over the issues of the batch in order, and a run that entered the loop
\* reaches its end, the summary, with a pass made over every issue.
FailuresIsolated ==
  /\ [](inBatchOrder /\ (summary => Len(trace) = Len(issues)))
  /\ [](pc = "loop" => <>(summary /\ Len(trace) = Len(issues)))

ThrewThenHandled ==
  /\ summary
  /\ Len(trace) = NumIssues
  /\ trace[1].outcome = "threw"
  /\ trace[NumIssues].outcome = "updateJira"
  /\ \A c \in 1..Len(trace[NumIssues].calls) : trace[NumIssues].calls[c].ok

\* C11: Summary preservation.  A run that ended on an error path (the exit
\* code 1 of a failed ticket search, or a loop with passes that were skipped,
\* threw or had a failed request) has logged its summary.
SummaryOnEveryErrorPath ==
  (pc = "exited" /\ (exitCode = 1 \/ trace # <<>>)) => summary

\* the pass that the step makes
madePass == trace'[Len(trace')]

\* C12: Unknown phase is skipped without writes.  A pass that fetched a
\* well-formed record which classifies to no phase makes no request to Jira,
\* leaves every ticket as it is, does not throw, and the loop moves on to the
\* next ticket.
UnknownIsSkipped ==
  [][\A k \in Keys :
       (/\ passOver(k)
        /\ madePass.outcome \notin {"noAwb", "noTracking"}
        /\ ~ShipmentPool[courier[k]].malformed
        /\ interpretStatus(ShipmentPool[courier[k]]) = "") =>
         /\ madePass.outcome = "unknown"
         /\ madePass.calls = <<>>
         /\ jira' = jira
         /\ pos' = pos + 1]_vars

UnknownThenNextTicket ==
  /\ Len(trace) = NumIssues
  /\ trace[1].outcome = "unknown"
  /\ trace[1].trackCalls > 0
  /\ trace[NumIssues].outcome = "updateJira"
  /\ called(trace[NumIssues], "doTransition")
  /\ \A c \in 1..Len(trace[NumIssues].calls) : trace[NumIssues].calls[c].ok

\* C13: Missing identifier and unavailable tracking are skips.  A pass over a
\* ticket whose tracking field yields no AWB makes no tracking request and no
\* request to Jira; a pass whose tracking fetch gave nothing classifies
\* nothing and makes no request to Jira; in both the tickets stay as they are
\* and the loop moves on to the next ticket.
MissingDataIsSkipped ==
  [][\A k \in Keys :
       passOver(k) =>
         /\ extractAWB(jira[k].fields[TRACKING_FIELD]) = "" =>
              /\ madePass.outcome = "noAwb"
              /\ madePass.trackCalls = 0
         /\ madePass.outcome \in {"noAwb", "noTracking"} =>
              /\ madePass.updatedStatus = ""
              /\ madePass.calls = <<>>
              /\ jira' = jira
              /\ pos' = pos + 1]_vars

SkippedThenSummary ==
  /\ summary
  /\ Len(trace) = NumIssues
  /\ trace[1].outcome = "noAwb"
  /\ trace[NumIssues].outcome = "noTracking"
  /\ trace[NumIssues].trackCalls = retries

\* the pass reached the field preparation: it classified the record
prepared(entry) == entry.outcome \in {"fieldsOnly", "updateJira"}

\* C14: No no-op writes.  Every key of the field delta that a pass computes
\* maps to a value that differs from the value the ticket holds in that field
\* when the pass begins.
NoNoOpWrites ==
  [][\A k \in Keys :
       passOver(k) =>
         \A f \in DOMAIN madePass.customFields :
           madePass.customFields[f] # jira[k].fields[f]]_vars

\* a pass of a later run whose delta holds the new instruction and the new
\* latest promised date, and leaves out the dispatch date the ticket holds
ChangedFieldsOnly ==
  /\ runNo = MaxRuns
  /\ trace # <<>>
  /\ prepared(trace[Len(trace)])
  /\ jira[1].fields[DISPATCH_DATE_FIELD] = fmt(ShipmentPool[courier[1]].OriginRecieveDate)
  /\ DISPATCH_DATE_FIELD \notin DOMAIN trace[Len(trace)].customFields
  /\ LATEST_INSTRUCTION_FIELD \in DOMAIN trace[Len(trace)].customFields
  /\ LATEST_PDD_FIELD \in DOMAIN trace[Len(trace)].customFields
  /\ jira[1].fields[LATEST_PDD_FIELD] = "2024-03-12"
  /\ \A c \in 1..Len(trace[Len(trace)].calls) : trace[Len(trace)].calls[c].ok

\* the scan history of the record holds a verified-cancellation scan
hasVerifiedCancellation(t) ==
  \E i \in 1..Len(t.Scans) :
    \E p \in 1..Len(VERIFIED_CXL_PHRASES) :
      includes(toLowerCase(t.Scans[i].ScanDetail.Instructions), VERIFIED_CXL_PHRASES[p])

\* C15: The return reason and the return-initiated date are in the field
\* delta of a pass only when the classified phase is RTO IN - TRANSIT or RTO
\* DELIVERED and the scan history holds a verified-cancellation scan.
ReturnFieldsOnlyOnReturn ==
  [][\A k \in Keys :
       (/\ passOver(k)
        /\ \/ RTO_REASON_FIELD \in DOMAIN madePass.customFields
           \/ RTO_INITIATED_DATE_FIELD \in DOMAIN madePass.customFields) =>
         /\ madePass.updatedStatus \in {"RTO IN - TRANSIT", "RTO DELIVERED"}
         /\ hasVerifiedCancellation(ShipmentPool[courier[k]])]_vars

\* a pass for a delivered shipment with a verified cancellation in its
\* history, on a ticket without return reason: the delta leaves both out
DeliveredWithCancellation ==
  /\ trace # <<>>
  /\ trace[Len(trace)].updatedStatus = "DELIVERED"
  /\ hasVerifiedCancellation(ShipmentPool[courier[1]])
  /\ jira[1].fields[RTO_REASON_FIELD] = ""
  /\ jira[1].fields[RTO_INITIATED_DATE_FIELD] = ""
  /\ DELIVERY_DATE_FIELD \in DOMAIN trace[Len(trace)].customFields
  /\ called(trace[Len(trace)], "putFields")
  /\ \A c \in 1..Len(trace[Len(trace)].calls) : trace[Len(trace)].calls[c].ok

\* C16: Terminal date fields are phase-gated.  The delivery date is in the
\* field delta of a pass only when the classified phase is DELIVERED, the
\* return-delivered date only when it is RTO DELIVERED.
TerminalDatesGated ==
  \A i \in 1..Len(trace) :
    /\ DELIVERY_DATE_FIELD \in DOMAIN trace[i].customFields =>
         trace[i].updatedStatus = "DELIVERED"
    /\ RTO_DELIVERED_DATE_FIELD \in DOMAIN trace[i].customFields =>
         trace[i].updatedStatus = "RTO DELIVERED"

\* a pass for a record with both a delivery and a return-completion
\* timestamp, on a ticket without delivery date: only the return-delivered
\* date is in the delta
ReturnedAfterDelivery ==
  /\ trace # <<>>
  /\ ShipmentPool[courier[1]].DeliveryDate # ""
  /\ ShipmentPool[courier[1]].ReturnedDate # ""
  /\ jira[1].fields[DELIVERY_DATE_FIELD] = ""
  /\ trace[Len(trace)].updatedStatus = "RTO DELIVERED"
  /\ RTO_DELIVERED_DATE_FIELD \in DOMAIN trace[Len(trace)].customFields
  /\ DELIVERY_DATE_FIELD \notin DOMAIN trace[Len(trace)].customFields

\* the record holds an instruction or a scan that reads "out for delivery"
hasOFDSignal(t) ==
  \/ isOFDText(t.Status.Instructions)
  \/ \E i \in 1..Len(t.Scans) :
       isOFDText(orElse(t.Scans[i].ScanDetail.Instructions, t.Scans[i].ScanDetail.Scan))

\* C17: The out-for-delivery date is derived independently of the phase.  A
\* pass that prepares the fields of a ticket without out-for-delivery date,
\* for a record with an instruction or a scan that reads "out for delivery",
\* has the out-for-delivery date in its field delta.
OfdDateWhateverPhase ==
  [][\A k \in Keys :
       (/\ passOver(k)
        /\ prepared(madePass)
        /\ jira[k].fields[OUT_FOR_DELIVERY_DATE_FIELD] = ""
        /\ hasOFDSignal(ShipmentPool[courier[k]])) =>
         OUT_FOR_DELIVERY_DATE_FIELD \in DOMAIN madePass.customFields]_vars

\* the transition that the pass executed leads to a status named as phase
movedTo(entry, phaseName) ==
  \E c \in 1..Len(entry.calls) :
    /\ entry.calls[c].op = "doTransition"
    /\ entry.calls[c].ok
    /\ \E a \in 1..Len(JIRA_STATUS_ALIASES[phaseName]) :
         nameNorm(transitionById(workflow, entry.calls[c].text).to.name)
           = nameNorm(JIRA_STATUS_ALIASES[phaseName][a])

\* C18: Post-delivery handoff.  A pass requests the assignee change, to the
\* post-delivery assignee, only after it executed a transition to DELIVERED
\* or RTO DELIVERED: never for another phase, on the fields-only path, or
\* when no transition resolved.
HandoffOnlyAfterTerminalMove ==
  \A i \in 1..Len(trace) :
    \A c \in 1..Len(trace[i].calls) :
      trace[i].calls[c].op = "putAssignee" =>
        /\ trace[i].calls[c].text = POST_DELIVERY_ASSIGNEE
        /\ trace[i].outcome = "updateJira"
        /\ trace[i].updatedStatus \in {"DELIVERED", "RTO DELIVERED"}
        /\ movedTo(trace[i], trace[i].updatedStatus)
        /\ \E d \in 1..(c - 1) : trace[i].calls[d].op = "doTransition" /\ trace[i].calls[d].ok

\* a pass moved the ticket to the status of a delivered return, under the
\* name the project gives it, and handed it over
HandedOverAfterReturn ==
  /\ trace # <<>>
  /\ trace[Len(trace)].updatedStatus = "RTO DELIVERED"
  /\ jira[1].fields.status.name = "Return Delivered"
  /\ jira[1].assignee = POST_DELIVERY_ASSIGNEE
  /\ called(trace[Len(trace)], "putAssignee")

\* C19: Every applied transition is accompanied by a comment.  A pass that
\* executed a workflow transition, with every request of the pass accepted,
\* posted a comment.
TransitionIsCommented ==
  \A i \in 1..Len(trace) :
    (/\ called(trace[i], "doTransition")
     /\ \A c \in 1..Len(trace[i].calls) : trace[i].calls[c].ok) =>
      called(trace[i], "postComment")

\* the pass made outbound requests, to the courier or to Jira
madeRequests(entry) == entry.trackCalls > 0 \/ entry.calls # <<>>

\* C20: Inter-ticket pacing.  Between a pass that made outbound requests and
\* the next pass that makes outbound requests, the loop waited the pacing
\* delay.
PacedBetweenTickets ==
  \A i \in 1..(Len(trace) - 1) :
    (madeRequests(trace[i]) /\ madeRequests(trace[i + 1])) => trace[i].slept

\* the names that assertEnv gives to the variables that env leaves unset
missingNames == {RequiredEnv[i].k : i \in {j \in 1..Len(RequiredEnv) : env[RequiredEnv[j].from] = ""}}

\* C21: once the start-up validation is over, the process has stopped with a
\* non-zero exit code exactly when a required value is missing; it has then
\* made no search, no tracking request and no write, and the error line
\* holds the name of every missing value, once.
ConfigFailureIsFatal ==
  boot # "start" =>
    IF missingNames = {}
    THEN boot = "ok" /\ logged = <<>>
    ELSE /\ boot = "fatal"
         /\ pc = "exited"
         /\ exitCode > 0
         /\ runNo = 0
         /\ issues = <<>>
         /\ trace = <<>>
         /\ {logged[i] : i \in 1..Len(logged)} = missingNames
         /\ Len(logged) = Cardinality(missingNames)

\* the process stopped at start-up with a date field and a credential missing
SeveralValuesMissing ==
  /\ boot = "fatal"
  /\ exitCode = 1
  /\ env["CUSTOMFIELD_RTO_DATE"] = ""
  /\ env["JIRA_API_TOKEN"] = ""
  /\ Len(logged) = 2

\* C22: a run that leaves the loop ends with exit code 0 exactly when no
\* failure reached the handlers of the process, and a process that ends with
\* exit code 0 without entering the loop had a search that answered with no
\* issue.
ExitCodeTellsFailure ==
  [][/\ (pc = "loop" /\ pc' = "exited" => (exitCode' = 0 <=> ~unhandled'))
     /\ (pc = "idle" /\ boot = "ok" /\ pc' = "exited" /\ exitCode' = 0
           => getJiraIssues(allIssues) = <<>>)]_vars

\* the phases of the enumeration, as the script names them
Phases ==
  {"PICKUP SCHEDULED", "IN - TRANSIT", "OUT FOR DELIVERY", "DELIVERED", "NDR",
   "RTO IN - TRANSIT", "RTO DELIVERED", "PICKUP EXCEPTION - DELHIVERY"}

\* the record carries a terminal-delivery signal: the delivery timestamp, a
\* delivery-type status, or "delivered" in its label or instruction text
terminalDelivery(t) ==
  \/ t.DeliveryDate # ""
  \/ t.Status.StatusType = "DL"
  \/ includes(toLowerCase(t.Status.Status), "delivered")
  \/ includes(toLowerCase(t.Status.Instructions), "delivered")

\* an RT scan among the last eight scans of the record
returnScanAmongLastEight(t) ==
  \E i \in 1..Len(t.Scans) : Len(t.Scans) - i < 8 /\ t.Scans[i].ScanDetail.ScanType = "RT"

\* the signals of the return-in-progress rule other than the scans
returnSignalBesideScans(t) ==
  \/ t.Status.StatusType \in {"RT", "RTO", "RET"}
  \/ t.ReverseInTransit
  \/ t.RTOStartedDate # ""
  \/ includes(toLowerCase(t.Status.Status), "rto")
  \/ includes(toLowerCase(t.Status.Instructions), "rto")

returnSignal(t) == returnSignalBesideScans(t) \/ returnScanAmongLastEight(t)

\* the instruction text holds a keyword of the forward rule
forwardKeyword(t) ==
  \E i \in 1..Len(ForwardKeywords) :
    includes(toLowerCase(t.Status.Instructions), ForwardKeywords[i])

\* the phases of the keywords of the return-implying rule that the
\* instruction text holds
returnKeywordPhases(t) ==
  {RtoKeywords[i][2] : i \in {j \in 1..Len(RtoKeywords) :
                               includes(toLowerCase(t.Status.Instructions), RtoKeywords[j][1])}}
  \cup (IF \E i \in 1..Len(VERIFIED_CXL_PHRASES) :
             includes(toLowerCase(t.Status.Instructions), VERIFIED_CXL_PHRASES[i])
        THEN {"RTO IN - TRANSIT"} ELSE {})

ReturnSignalMeansReturnLeg ==
  (/\ phase # "pending"
   /\ ~terminalReturn(record)
   /\ ~terminalDelivery(record)
   /\ returnSignal(record)) => phase = "RTO IN - TRANSIT"

ReturnTypeAlone ==
  /\ phase = "RTO IN - TRANSIT"
  /\ record.Status.StatusType = "RET"
  /\ record.Status.Status = "In Transit"
  /\ record.Status.Instructions = "Consignee Unavailable"
  /\ ~record.ReverseInTransit
  /\ record.RTOStartedDate = ""
  /\ record.Scans = <<>>
  /\ ~terminalReturn(record)
  /\ ~terminalDelivery(record)

\* the label or the instruction text tells of a return
textTellsOfReturn(t) ==
  \E word \in {"rto", "return", "cancel", "ntd updated", "establishment closed"} :
    \/ includes(toLowerCase(t.Status.Status), word)
    \/ includes(toLowerCase(t.Status.Instructions), word)

\* the only return-related signal of the record is an RT scan, which eight
\* or more later scans follow
staleReturnScanOnly(t) ==
  /\ \E i \in 1..Len(t.Scans) : t.Scans[i].ScanDetail.ScanType = "RT"
  /\ \A i \in 1..Len(t.Scans) :
       t.Scans[i].ScanDetail.ScanType = "RT" => Len(t.Scans) - i >= 8
  /\ ~returnSignalBesideScans(t)
  /\ ~textTellsOfReturn(t)
  /\ ~terminalReturn(t)

\* C25: Lookback bound.  A record whose only return-related signal is an RT
\* scan followed by eight or more later scans does not classify as
\* RTO IN - TRANSIT, while an RT scan that is the eighth from the end is a
\* return-in-progress signal.
StaleReturnScanIgnored ==
  phase # "pending" =>
    /\ staleReturnScanOnly(record) => phase # "RTO IN - TRANSIT"
    /\ (/\ Len(record.Scans) = 8
        /\ record.Scans[1].ScanDetail.ScanType = "RT"
        /\ ~terminalReturn(record)
        /\ ~terminalDelivery(record)) => phase = "RTO IN - TRANSIT"

ReturnScanNineScansBack ==
  /\ phase = "IN - TRANSIT"
  /\ staleReturnScanOnly(record)
  /\ Len(record.Scans) = 9
  /\ record.Scans[1].ScanDetail.ScanType = "RT"
  /\ record.Status.Status = "In Transit"
  /\ record.Status.Instructions = ""

\* the record matches none of the first five rules
fallsToTable(t) ==
  /\ ~terminalReturn(t)
  /\ ~terminalDelivery(t)
  /\ ~returnSignal(t)
  /\ ~forwardKeyword(t)
  /\ returnKeywordPhases(t) = {}

\* C26: Fallback lookup.  The phase of a record that matches none of the
\* first five rules is the one that STATUS_MAP gives to its trimmed label,
\* and Unknown (null) for a label that is not a key of the table; the phase
\* of every record is one of the enumeration or Unknown.
FallbackIsTableOrUnknown ==
  phase # "pending" =>
    /\ phase \in Phases \cup {""}
    /\ fallsToTable(record) =>
         phase = IF trim(record.Status.Status) \in DOMAIN STATUS_MAP
                 THEN STATUS_MAP[trim(record.Status.Status)] ELSE ""

\* the places in offered of the transitions whose normalized target name is
\* a normalized alias of the target phase
aliasOffers ==
  {i \in 1..Len(offered) :
     \E a \in 1..Len(aliasesOf(target)) :
       nameNorm(offered[i].to.name) = nameNorm(aliasesOf(target)[a])}

\* the places in offered of the transitions whose normalized target name
\* holds the return marker and the movement marker
markerOffers ==
  {i \in 1..Len(offered) :
     /\ includes(nameNorm(offered[i].to.name), "rto")
     /\ includes(nameNorm(offered[i].to.name), "transit")}

\* the first of the places of a set of places that is not empty
firstOf(places) == CHOOSE i \in places : \A j \in places : i <= j

\* C27: Transition resolution rule.  The resolver returns the first offered
\* transition that is an alias match of the phase; without an alias match,
\* and for RTO IN - TRANSIT only, the first offered transition whose name
\* holds both markers; and none in every other case.
ResolutionRule ==
  resolved # Pending =>
    IF aliasOffers # {} THEN resolved = offered[firstOf(aliasOffers)]
    ELSE IF target = "RTO IN - TRANSIT" /\ markerOffers # {}
         THEN resolved = offered[firstOf(markerOffers)]
    ELSE resolved = NoTransition

MarkerMatchResolved ==
  /\ target = "RTO IN - TRANSIT"
  /\ aliasOffers = {}
  /\ Len(offered) = 3
  /\ markerOffers = {2}
  /\ resolved = offered[2]
  /\ resolved.to.name = "RTO Transit"

\* the digits of the fragments of a kind that the text of field holds
idsIn(kind) ==
  {f.id : f \in {g \in ExtractFragments : g.kind = kind /\ includes(field.value, g.text)}}

\* a run of 10 to 14 digits
isIdentifier(text) ==
  /\ Len(text) \in 10..14
  /\ \A i \in 1..Len(text) : charAt(text, i) \in charsOf("0123456789")

\* C28: Identifier extraction order.  The extractor returns none or a run of
\* 10 to 14 digits of the input; the digits of an awb= / waybill= marker when
\* the input holds one, else those of a path segment when it holds one, else
\* those of a bare run of digits, wherever they stand in the input; and none
\* for an empty input and for an input that is not a string.
ExtractionOrder ==
  extracted # NotExtracted =>
    /\ extracted = "" \/ (isIdentifier(extracted) /\ includes(field.value, extracted))
    /\ (field.type # "string" \/ field.value = "") => extracted = ""
    /\ field.type = "string" =>
         IF idsIn("marker") # {} THEN extracted \in idsIn("marker")
         ELSE IF idsIn("path") # {} THEN extracted \in idsIn("path")
         ELSE IF idsIn("digits") # {} THEN extracted \in idsIn("digits")
         ELSE extracted = ""

MarkerAfterDigitsAndPath ==
  /\ field.type = "string"
  /\ field.value = "29798810134376 https://dlv.in/p/29798810134375 awb=29798810134374 "
  /\ extracted = "29798810134374"

\* the resolver would accept a transition to the status of the ticket as the
\* transition to the classified phase of the pass
statusAcceptedForPhase(entry) ==
  /\ entry.updatedStatus # ""
  /\ entry.status # ""
  /\ findTransitionByName(<<Transition("0", entry.status)>>, entry.updatedStatus)
       # NoTransition

\* C29: Alias-tolerant already-in-phase check.  A pass for a ticket whose
\* status name the resolver would accept as the target of the classified
\* phase lists no transitions, executes none and posts no comment.
AliasStatusIsInPhase ==
  \A i \in 1..Len(trace) :
    statusAcceptedForPhase(trace[i]) =>
      /\ ~called(trace[i], "listTransitions")
      /\ ~called(trace[i], "doTransition")
      /\ ~called(trace[i], "postComment")

\* the passes of the run that executed a transition which Jira accepted
movedPasses ==
  {i \in 1..Len(trace) :
     \E c \in 1..Len(trace[i].calls) :
       trace[i].calls[c].op = "doTransition" /\ trace[i].calls[c].ok}

\* the passes of the run that found the ticket in its classified phase
inPhasePasses ==
  {i \in 1..Len(trace) :
     /\ trace[i].updatedStatus # ""
     /\ trace[i].status # ""
     /\ nameNorm(trace[i].status) = nameNorm(trace[i].updatedStatus)}

\* C30: Summary counters.  When the summary is logged, updated is the number
\* of tickets whose transition was executed and accepted in the run, skipped
\* is the number of tickets found in their classified phase, and no ticket
\* is counted twice.
CountersTellOutcomes ==
  summary =>
    /\ updated = Cardinality(movedPasses)
    /\ skipped = Cardinality(inPhasePasses)
    /\ updated + skipped <= Len(trace)

\* the record carries its status label and nothing else
labelOnly(t) ==
  /\ t.Status.StatusType = ""
  /\ t.Status.Instructions = ""
  /\ t.ReturnedDate = ""
  /\ t.DeliveryDate = ""
  /\ ~t.ReverseInTransit
  /\ t.RTOStartedDate = ""
  /\ t.Scans = <<>>

\* C34: Table labels classify as the table says.  A record that carries only
\* a status label which is a key of STATUS_MAP classifies to the phase that
\* STATUS_MAP gives to the label.
TableLabelsClassifyAsTable ==
  (/\ phase # "pending"
   /\ labelOnly(record)
   /\ record.Status.Status \in DOMAIN STATUS_MAP) =>
    phase = STATUS_MAP[record.Status.Status]

\* the requests that write to the ticket beside the transition
TicketWrites == {"putFields", "putAssignee", "postComment"}

\* C32: Write ordering on the transition path.  A pass on the transition path
\* first lists the transitions; when one resolves it executes it next, and
\* the field update, the assignee change and the comment come only after the
\* execution was accepted; a failed listing or a failed execution is the last
\* request of the pass, and the pass ends without throwing, the loop going on
\* to its pacing delay.
WritesFollowTransition ==
  \A i \in 1..Len(trace) :
    trace[i].outcome = "updateJira" =>
      /\ trace[i].calls # <<>>
      /\ trace[i].calls[1].op = "listTransitions"
      /\ ~trace[i].calls[1].ok => Len(trace[i].calls) = 1
      /\ \A c \in 1..Len(trace[i].calls) :
           /\ trace[i].calls[c].op = "doTransition" =>
                /\ c = 2
                /\ ~trace[i].calls[c].ok => Len(trace[i].calls) = 2
           /\ (trace[i].calls[c].op \in TicketWrites /\ called(trace[i], "doTransition")) =>
                /\ c > 2
                /\ trace[i].calls[2].op = "doTransition"
                /\ trace[i].calls[2].ok
      /\ trace[i].slept

\* the execution of a resolved transition failed for a pass that had a field
\* delta and a comment to write
FailedTransitionEndsPass ==
  \E i \in 1..Len(trace) :
    /\ trace[i].outcome = "updateJira"
    /\ opsOf(trace[i]) = <<"listTransitions", "doTransition">>
    /\ ~trace[i].calls[2].ok
    /\ trace[i].customFields # EmptyObject
    /\ trace[i].updatedStatus = "DELIVERED"
    /\ trace[i].slept

\* the ticket is in a status that is named as DELIVERED or RTO DELIVERED
inTerminalStatus ==
  \E phaseName \in {"DELIVERED", "RTO DELIVERED"} :
    \E a \in 1..Len(JIRA_STATUS_ALIASES[phaseName]) :
      nameNorm(jira[1].fields.status.name) = nameNorm(JIRA_STATUS_ALIASES[phaseName][a])

\* the ticket is with the post-delivery assignee
handedOver == jira[1].assignee = POST_DELIVERY_ASSIGNEE

\* a pass of a run after the first one had a failed request
laterRunFailed == runNo = MaxRuns /\ trace # <<>> /\ ~trace[1].clean

\* C31: Eventual post-delivery handoff.  A ticket that the driver moved to
\* DELIVERED or RTO DELIVERED is eventually with the post-delivery assignee,
\* in the run of the transition or in a later run over the unchanged record,
\* unless requests of the later runs fail as well.
HandoffEventually == inTerminalStatus ~> (handedOver \/ laterRunFailed)

\* C33: Pagination collects each ticket once.  Whatever requests of the
\* enhanced search fail, the list that fetchAllIssues returns holds every
\* issue of the result set exactly once.
EachTicketOnce ==
  fpc = "done" =>
    /\ Len(all) = matching
    /\ \A k \in 1..matching : \E i \in 1..Len(all) : all[i] = k

====
